---- MODULE Spec2Model ----
(***************************************************************************)
(* Model of the admin request pipeline of the restaurant ordering backend: *)
(* the adminAuth middleware (authenticateAdmin, requireRole,               *)
(* adminRateLimit), the admin router that chains them, and the admin       *)
(* controller handlers behind it.                                          *)
(***************************************************************************)
EXTENDS Integers, Sequences, FiniteSets, TLC

VARIABLES
    now,        \* Date.now(), in ms
    limCfg,     \* limiter instance -> [maxRequests, windowMs] (closure parameters)
    requests,   \* limiter instance -> the instance's `requests` Map: adminId -> timestamps
    passed,     \* history: limiter instance -> adminId -> timestamps of the calls let through
    last,       \* history: the latest adminRateLimit call and its outcome
    denied,     \* history: limiter instance -> admin ids that were answered 429 at least once
    jwtSecret,  \* process.env.JWT_SECRET is set
    admins,     \* the Admin table: id -> row
    orders,     \* the Order table: id -> row
    menu,       \* the MenuItem table: id -> row
    reqs,       \* the requests being served: slot -> request, or Idle
    issued,     \* history: number of requests received so far
    gate,       \* a requireRole(roles) middleware under test and its latest call
    checkout,   \* history: the latest order creation attempt and its outcome
    menuPage    \* the menu page (Index): its state cartItems and isAddingToCart

vars == <<now, limCfg, requests, passed, last, denied,
          jwtSecret, admins, orders, menu, reqs, issued, gate, checkout, menuPage>>

\* what the limiter alone leaves untouched
appVars == <<jwtSecret, admins, orders, menu, reqs, issued, gate, checkout, menuPage>>

----------------------------------------------------------------------------
(* Bounds *)

NumAdmins      == 2   \* admin ids 1..NumAdmins
MaxTime        == 3   \* the clock runs from 0 to MaxTime
MaxWindowMs    == 2   \* windowMs ranges over 1..MaxWindowMs
MaxMaxRequests == 2   \* maxRequests ranges over 0..MaxMaxRequests
MaxCalls       == 5   \* number of calls of the limiter in one run

AdminIds == 1..NumAdmins

\* req.admin?.id of a request without identity (undefined), or a falsy id
NoId == 0

\* a request without req.admin
NoAdmin == [present |-> FALSE, id |-> NoId]

\* the body of POST /user/orders, here an empty one
NoOrderData ==
    [items |-> <<>>, totalAmount |-> 0, orderType |-> "", tableNumber |-> "",
     deliveryAddress |-> ""]

\* no order creation was attempted yet
NoCheckout ==
    [n |-> 0, via |-> "none", sent |-> FALSE, body |-> NoOrderData, status |-> 0, id |-> NoId]

\* the menu page as it is mounted: useState([]) and useState(null)
NoPage == [cartItems |-> <<>>, isAddingToCart |-> NoId]

----------------------------------------------------------------------------
(* adminRateLimit(maxRequests, windowMs) *)

\* const adminId = req.admin?.id;
AdminIdOf(reqAdmin) == IF reqAdmin.present THEN reqAdmin.id ELSE NoId

\* requests.has(adminId) / requests.get(adminId) on the Map, after the
\* `if (!requests.has(adminId)) requests.set(adminId, [])` of the middleware
EnsureKey(map, adminId) ==
    IF adminId \in DOMAIN map THEN map
    ELSE [k \in DOMAIN map \cup {adminId} |-> IF k = adminId THEN <<>> ELSE map[k]]

\* time > windowStart
StillValid_m(time, windowStart) == time >= windowStart
StillValid(time, windowStart) == time > windowStart

\* adminRequests.filter(time => time > windowStart)
FilterValid_m(adminRequests, windowStart) == adminRequests
FilterValid(adminRequests, windowStart) ==
    SelectSeq(adminRequests, LAMBDA time : StillValid(time, windowStart))

\* validRequests.length >= maxRequests
LimitReached_m(validRequests, maxRequests) == Len(validRequests) > maxRequests
LimitReached(validRequests, maxRequests) == Len(validRequests) >= maxRequests

\* if (!adminId) return next();
Bypass_m(adminId) == FALSE
Bypass(adminId) == adminId = NoId

\* what is stored for the admin when the request is answered 429
StoredOn429_m(validRequests, t) == Append(validRequests, t)
StoredOn429(validRequests, t) == validRequests

\* One call of the middleware returned by adminRateLimit: the Map after the
\* call and whether next() was called or 429 was sent.
AdminRateLimit(map, cfg, adminId, t) ==
    IF Bypass(adminId) THEN [map |-> map, status |-> "next"]
    ELSE
        LET windowStart   == t - cfg.windowMs
            m1            == EnsureKey(map, adminId)
            validRequests == FilterValid(m1[adminId], windowStart)
        IN  IF LimitReached(validRequests, cfg.maxRequests)
            THEN [map    |-> [m1 EXCEPT ![adminId] = StoredOn429(validRequests, t)],
                  status |-> "429"]
            ELSE [map    |-> [m1 EXCEPT ![adminId] = Append(validRequests, t)],
                  status |-> "next"]

----------------------------------------------------------------------------
(* The limiter alone: one instance, called directly at non-decreasing times *)

NoCall == [n |-> 0, inst |-> "none", adminId |-> NoId, status |-> "none", at |-> 0]

EmptyMap == [k \in {} |-> <<>>]

InitRL ==
    /\ now = 0
    /\ \E mr \in 0..MaxMaxRequests, w \in 1..MaxWindowMs :
           limCfg = [i \in {"rl"} |-> [maxRequests |-> mr, windowMs |-> w]]
    /\ requests = [i \in {"rl"} |-> EmptyMap]
    /\ passed = [i \in {"rl"} |-> [a \in AdminIds |-> <<>>]]
    /\ denied = [i \in {"rl"} |-> {}]
    /\ last = NoCall
    /\ jwtSecret = TRUE
    /\ admins = EmptyMap
    /\ orders = EmptyMap
    /\ menu = EmptyMap
    /\ reqs = EmptyMap
    /\ issued = 0
    /\ gate = EmptyMap
    /\ checkout = NoCheckout
    /\ menuPage = NoPage

\* Date.now() advances
Tick ==
    /\ now < MaxTime
    /\ now' = now + 1
    /\ UNCHANGED <<limCfg, requests, passed, last, denied, appVars>>

\* a request reaches the limiter `inst` with req.admin = reqAdmin
LimiterCall(inst, reqAdmin) ==
    LET adminId == AdminIdOf(reqAdmin)
        r == AdminRateLimit(requests[inst], limCfg[inst], adminId, now) IN
    /\ last.n < MaxCalls
    /\ requests' = [requests EXCEPT ![inst] = r.map]
    /\ last' = [n |-> last.n + 1, inst |-> inst, adminId |-> adminId,
                status |-> r.status, at |-> now]
    /\ passed' = IF r.status = "next" /\ adminId \in AdminIds
                 THEN [passed EXCEPT ![inst][adminId] = Append(@, now)]
                 ELSE passed
    /\ denied' = IF r.status = "429"
                 THEN [denied EXCEPT ![inst] = @ \cup {adminId}]
                 ELSE denied
    /\ UNCHANGED <<now, limCfg, appVars>>

RLRequest == \E adminId \in AdminIds : LimiterCall("rl", [present |-> TRUE, id |-> adminId])

\* req.admin absent, or present without an id
RLAnonymous == \E reqAdmin \in {NoAdmin, [present |-> TRUE, id |-> NoId]} : LimiterCall("rl", reqAdmin)

NextRL == Tick \/ RLRequest \/ RLAnonymous

SpecRL == InitRL /\ [][NextRL]_vars

----------------------------------------------------------------------------
(* Properties of adminRateLimit (checked under SpecRL) *)

RLCfg == limCfg["rl"]

\* the timestamps of seq that lie in the trailing interval (t - w, t]
InWindow(seq, t, w) == {k \in DOMAIN seq : seq[k] > t - w /\ seq[k] <= t}

\* the step is a call of the limiter by an identified admin
IsCallBy(a) == last'.n # last.n /\ last'.adminId = a

\* C1: for one limiter instance and any admin, the number of requests let
\* through with timestamps in any trailing interval (t - windowMs, t] never
\* exceeds maxRequests, and a request is answered 429 exactly when the number
\* of the admin's recorded timestamps still inside the window is >= maxRequests.
C1_WindowBound ==
    \A a \in AdminIds : \A t \in 0..MaxTime :
        Cardinality(InWindow(passed["rl"][a], t, RLCfg.windowMs)) <= RLCfg.maxRequests

C1_Answer429 ==
    \A a \in AdminIds :
        IsCallBy(a) =>
            (last'.status = "429"
                <=> Cardinality(InWindow(passed["rl"][a], now, RLCfg.windowMs)) >= RLCfg.maxRequests)

C1_SlidingWindow == []C1_WindowBound /\ [][C1_Answer429]_vars

\* a full window: maxRequests >= 1 requests were let through and the next one got 429
C1_Witness ==
    /\ RLCfg.maxRequests >= 1
    /\ last.status = "429"
    /\ last.adminId \in AdminIds
    /\ Cardinality(InWindow(passed["rl"][last.adminId], now, RLCfg.windowMs)) = RLCfg.maxRequests

\* C2: for maxRequests >= 1 the first maxRequests requests of an admin are let
\* through, a further request while those are inside the window is answered
\* 429, and a request made once the window has elapsed since every counted
\* request is let through again (no permanent lock-out).
C2_Step ==
    \A a \in AdminIds :
        (IsCallBy(a) /\ RLCfg.maxRequests >= 1) =>
            LET hist == passed["rl"][a] IN
            /\ Len(hist) < RLCfg.maxRequests => last'.status = "next"
            /\ (Len(hist) = RLCfg.maxRequests /\ \A k \in DOMAIN hist : now - hist[k] < RLCfg.windowMs)
                   => last'.status = "429"
            /\ (\A k \in DOMAIN hist : now - hist[k] >= RLCfg.windowMs) => last'.status = "next"

C2_LimitThenRecover == [][C2_Step]_vars

\* an admin that was answered 429 is let through again after the window elapsed
C2_Witness ==
    /\ RLCfg.maxRequests >= 1
    /\ last.status = "next"
    /\ last.adminId \in denied["rl"]
    /\ Len(passed["rl"][last.adminId]) = RLCfg.maxRequests + 1

\* the timestamps stored for admin a, none when the Map has no such key
Stored(map, a) == IF a \in DOMAIN map THEN map[a] ELSE <<>>

\* the step is a call of the limiter that was answered 429
Is429 == last'.n # last.n /\ last'.status = "429"

\* C3 as stated: a request answered 429 leaves the Map (keys and sequences)
\* as it was, for every maxRequests value.
C3_Original == [][Is429 => requests' = requests]_vars

\* C3 amended: a request answered 429 leaves every admin's timestamp sequence
\* as it was (an absent key counting as the empty sequence) and does not
\* record `now`; the Map's keys are unchanged too when maxRequests >= 1.
C3_Step ==
    Is429 =>
        /\ \A a \in AdminIds \cup {NoId} :
               Stored(requests'["rl"], a) = Stored(requests["rl"], a)
        /\ RLCfg.maxRequests >= 1 => requests' = requests

C3_NoSideEffectOn429 == [][C3_Step]_vars

\* a 429 answered to an admin that has timestamps recorded
C3_Witness ==
    /\ last.status = "429"
    /\ RLCfg.maxRequests >= 1
    /\ Len(Stored(requests["rl"], last.adminId)) >= 1

\* C4: a request without identity (req.admin absent or without id) is always
\* passed on and leaves the Map unchanged, however many were made.
C4_Step ==
    (last'.n # last.n /\ last'.adminId = NoId) =>
        /\ last'.status = "next"
        /\ requests' = requests

C4_AnonymousBypass == [][C4_Step]_vars

\* more anonymous requests than maxRequests went through, while an admin is limited
C4_Witness ==
    /\ last.adminId = NoId
    /\ last.status = "next"
    /\ last.n > RLCfg.maxRequests + 1
    /\ denied["rl"] # {}

----------------------------------------------------------------------------
(* Values shared by the middleware and the controllers *)

\* role values an Admin row can carry
Roles == {"admin", "super_admin", "staff"}

\* a role, or a `roles` argument, is a single string or an array of strings
One(role) == [arr |-> FALSE, one |-> role, many |-> {}]
Many(roleSet) == [arr |-> TRUE, one |-> "", many |-> roleSet]

\* JSON values of response envelopes: a string, null, an array, or an object
\* (a record)
Str(s) == [str |-> s]
Null == [null |-> TRUE]
Arr(seq) == [array |-> seq]

\* ResponseHandler: the envelope {success, message, data} and the HTTP status
Respond(status, success, message, data) ==
    [n |-> 1, status |-> status,
     body |-> [success |-> success, message |-> message, data |-> data]]

\* ResponseHandler.success(res, data, message, statusCode = 200)
Success(data, message, status) == Respond(status, TRUE, message, data)
\* ResponseHandler.error(res, message, statusCode = 500)
Error(message, status) == Respond(status, FALSE, Str(message), Null)
Unauthorized(message) == Error(message, 401)
Forbidden(message) == Error(message, 403)
NotFound(resource) == Error(resource, 404)
Conflict(message) == Error(message, 409)

\* no response sent yet
NoRes == [n |-> 0, status |-> 0, body |-> [success |-> FALSE, message |-> Null, data |-> Null]]

----------------------------------------------------------------------------
(* requireRole(roles) *)

\* Array.isArray(x) ? x : [x]
AsArray(x) == IF x.arr THEN x.many ELSE {x.one}

\* requiredRoles.some(role => userRoles.includes(role))
HasRequiredRole_m(requiredRoles, userRoles) == \A role \in requiredRoles : role \in userRoles
HasRequiredRole(requiredRoles, userRoles) == \E role \in requiredRoles : role \in userRoles

\* the middleware returned by requireRole(roles): "next", or the status sent
RequireRole(roles, reqAdmin) ==
    IF ~reqAdmin.present THEN "401"
    ELSE IF ~HasRequiredRole(AsArray(roles), AsArray(reqAdmin.role)) THEN "403"
    ELSE "next"

\* the response requireRole sends with a status
RoleResponse(status) ==
    IF status = "401" THEN Unauthorized("Authentication required.")
    ELSE Forbidden("Insufficient permissions.")

(* requireRole alone: one gate applied to one request context *)

RoleArgs == {One(r) : r \in Roles} \cup {Many(rs) : rs \in SUBSET Roles}

GateAdmins ==
    {[present |-> FALSE, id |-> NoId, role |-> One("")]}
        \cup {[present |-> TRUE, id |-> 1, role |-> r] : r \in RoleArgs}

InitRole ==
    /\ gate \in [roles : RoleArgs, admin : GateAdmins, status : {"none"}, res : {NoRes}]
    /\ now = 0
    /\ limCfg = EmptyMap
    /\ requests = EmptyMap
    /\ passed = EmptyMap
    /\ denied = EmptyMap
    /\ last = NoCall
    /\ jwtSecret = TRUE
    /\ admins = EmptyMap
    /\ orders = EmptyMap
    /\ menu = EmptyMap
    /\ reqs = EmptyMap
    /\ issued = 0
    /\ checkout = NoCheckout
    /\ menuPage = NoPage

\* the request reaches the gate
GateCall ==
    /\ gate.status = "none"
    /\ LET st == RequireRole(gate.roles, gate.admin) IN
       gate' = [gate EXCEPT !.status = st,
                            !.res = IF st = "next" THEN NoRes ELSE RoleResponse(st)]
    /\ UNCHANGED <<now, limCfg, requests, passed, last, denied,
                   jwtSecret, admins, orders, menu, reqs, issued, checkout, menuPage>>

NextRole == GateCall

SpecRole == InitRole /\ [][NextRole]_vars

\* C8: requireRole(R) applied to an authenticated request calls next if and
\* only if the admin's role is in the required set R, and otherwise answers
\* 403 Forbidden (e.g. a role other than super_admin at a super_admin-only gate).
C8_RoleGate ==
    (gate.status # "none" /\ gate.admin.present /\ ~gate.admin.role.arr) =>
        LET R == IF gate.roles.arr THEN gate.roles.many ELSE {gate.roles.one} IN
        /\ gate.status = "next" <=> gate.admin.role.one \in R
        /\ gate.status = "next" => gate.res.n = 0
        /\ gate.status # "next" => (gate.status = "403" /\ gate.res.status = 403)

\* an admin whose role is not super_admin refused by a super_admin-only gate
C8_Witness ==
    /\ gate.roles = Many({"super_admin"})
    /\ gate.admin.present
    /\ gate.admin.role = One("admin")
    /\ gate.status = "403"

----------------------------------------------------------------------------
(* Tokens, headers and the stores *)

\* a JWT as jwt.verify sees it: well-formed, signed with JWT_SECRET and
\* unexpired ("valid"), or failing verification in one of three ways
TokenKinds == {"valid", "expired", "badsig", "malformed"}

\* the empty string / undefined
EmptyToken == [kind |-> "empty", id |-> NoId]

\* jwt.sign({ id: admin.id, ... }, JWT_SECRET, { expiresIn: "24h" })
JwtSign(id) == [kind |-> "valid", id |-> id]

\* jwt.verify(token, JWT_SECRET) returns the payload; FALSE: it throws
JwtVerify_m(token) == token.kind # "malformed"
JwtVerify(token) == token.kind = "valid"

\* the Authorization header: absent, or a string with or without "Bearer "
NoHeader == [present |-> FALSE, bearer |-> FALSE, token |-> EmptyToken]

\* req.header('Authorization')?.replace('Bearer ', '')
TokenOf(header) == IF header.present THEN header.token ELSE EmptyToken

\* !token
Falsy(token) == token.kind = "empty"

\* bcrypt.hash(password, saltRounds) and bcrypt.compare(password, hash)
Hash(password) == <<"bcrypt", password>>
Compare(password, hash) == hash = Hash(password)

\* attributes: { exclude: [field] }
Exclude(row, field) == [f \in DOMAIN row \ {field} |-> row[f]]

\* Admin model defaults for the columns registerAdmin does not set
DefaultRole == "admin"
DefaultActive == TRUE

----------------------------------------------------------------------------
(* authenticateAdmin *)

\* checks (a) and (b) before the token is verified
AuthPrecheck_m(token, secretSet) ==
    IF ~secretSet THEN "500" ELSE IF Falsy(token) THEN "401" ELSE "verify"
AuthPrecheck(token, secretSet) ==
    IF Falsy(token) THEN "401" ELSE IF ~secretSet THEN "500" ELSE "verify"

\* if (!admin || !admin.isActive)
AdminRejected_m(found, row) == ~found
AdminRejected(found, row) == ~found \/ ~row.isActive

\* req.admin = { id, username, email, role, isActive }
ReqAdminOf_m(row) == [f \in DOMAIN row \cup {"present"} |-> IF f = "present" THEN TRUE ELSE row[f]]
ReqAdminOf(row) ==
    [present |-> TRUE, id |-> row.id, username |-> row.username, email |-> row.email,
     role |-> row.role, isActive |-> row.isActive]

----------------------------------------------------------------------------
(* The admin router *)

Stage(kind) == [kind |-> kind, roles |-> Many({}), inst |-> "", name |-> ""]
Auth == Stage("auth")
Role(roleSet) == [Stage("role") EXCEPT !.roles = Many(roleSet)]
Limit_m(inst) == [Stage("limit") EXCEPT !.inst = "upload-image"]
Limit(inst) == [Stage("limit") EXCEPT !.inst = inst]
Upload == Stage("upload")
Validate == Stage("validate")
Handler(name) == [Stage("handler") EXCEPT !.name = name]

Route(method, path, stages) == [method |-> method, path |-> path, stages |-> stages]

\* router.put("/orders/:id/status", authenticateAdmin, adminRateLimit(...), updateOrderStatus)
OrderStatusStages_m == <<Limit("orders:status"), Auth, Handler("updateOrderStatus")>>
OrderStatusStages == <<Auth, Limit("orders:status"), Handler("updateOrderStatus")>>

\* the routes that are not behind authenticateAdmin
PublicPaths == {"/register", "/login"}

\* the earlier version of updateOrderStatus, behind the earlier router
EarlierUpdateOrderStatus == "updateOrderStatus (earlier version)"

Routes == <<
    Route("POST",   "/register",            <<Validate, Handler("registerAdmin")>>),
    Route("POST",   "/login",               <<Handler("loginAdmin")>>),
    Route("GET",    "/profile",             <<Auth, Handler("getAdminProfile")>>),
    Route("GET",    "/dashboard/stats",     <<Auth, Handler("getDashboardStats")>>),
    Route("GET",    "/dashboard/activity",  <<Auth, Handler("getRecentActivity")>>),
    Route("GET",    "/analytics/dashboard", <<Auth, Handler("analyticsDashboard")>>),
    Route("GET",    "/analytics/menu",      <<Auth, Handler("analyticsMenu")>>),
    Route("GET",    "/analytics/orders",    <<Auth, Handler("analyticsOrders")>>),
    Route("GET",    "/system/health",       <<Auth, Role({"admin", "super_admin"}), Handler("systemHealth")>>),
    Route("POST",   "/upload-image",        <<Auth, Limit("upload-image"), Upload, Handler("uploadImage")>>),
    Route("GET",    "/menu-items",          <<Auth, Handler("getAllMenuItems")>>),
    Route("POST",   "/menu-items",          <<Auth, Limit("menu-items:create"), Upload, Handler("createMenuItem")>>),
    Route("PUT",    "/menu-items/:id",      <<Auth, Limit("menu-items:update"), Validate, Handler("updateMenuItem")>>),
    Route("DELETE", "/menu-items/:id",      <<Auth, Role({"admin"}), Handler("deleteMenuItem")>>),
    Route("GET",    "/orders",              <<Auth, Handler("getAllOrders")>>),
    Route("GET",    "/stats/top-items",     <<Auth, Handler("getTopItems")>>),
    Route("PUT",    "/orders/:id/status",   OrderStatusStages),
    Route("GET",    "/notifications/count", <<Auth, Handler("getNotificationCount")>>),
    Route("GET",    "/notifications",       <<Auth, Handler("getNotifications")>>),
    Route("PUT",    "/orders/:id/status",   <<Auth, Handler(EarlierUpdateOrderStatus)>>)
>>

\* adminRateLimit(n, 15 * 60 * 1000) of the four rate-limited routes
RouteLimits ==
    [i \in {"upload-image", "menu-items:create", "menu-items:update", "orders:status"} |->
        [maxRequests |-> CASE i = "upload-image" -> 50
                           [] i = "menu-items:create" -> 20
                           [] i = "menu-items:update" -> 50
                           [] i = "orders:status" -> 100,
         windowMs |-> 15 * 60 * 1000]]

\* handlers that only read the stores and answer with what they read
ReadOnlyHandlers ==
    {"getRecentActivity", "analyticsDashboard", "analyticsMenu",
     "analyticsOrders", "systemHealth", "getAllMenuItems", "getAllOrders",
     "getNotificationCount", "getNotifications"}

----------------------------------------------------------------------------
(* Orders *)

\* the six states of the order lifecycle
LifecycleStates == {"pending", "confirmed", "preparing", "ready", "delivered", "cancelled"}

\* seedDatabase: the statuses it draws from
orderStatuses == <<"pending", "preparing", "ready", "completed", "cancelled">>

\* a line item of an order: the snapshot { id, name, price, quantity } of a menu
\* item (names are left out); amounts are in thousandths of the currency unit
LineItem(id, price, quantity) == [id |-> id, price |-> price, quantity |-> quantity]

\* Number.prototype.toFixed(2): round to hundredths, half up
ToFixed2(x) == ((x + 5) \div 10) * 10

\* seedDatabase: (randomMenuItem.price * quantity).toFixed(2)
SeedTotal_m(price, quantity) == ToFixed2(price)
SeedTotal(price, quantity) == ToFixed2(price * quantity)

\* seedDatabase: tableNumber.toString()
SeedTableNumber_m(n) == ""
SeedTableNumber(n) == ToString(n)

\* seedDatabase: the row of one Order.create; absent columns (deliveryAddress)
\* are the empty string
SeedOrder(id, userId, item, quantity, status, table, createdAt) ==
    [id |-> id, userId |-> userId,
     items |-> <<LineItem(item.id, item.price, quantity)>>,
     totalAmount |-> SeedTotal(item.price, quantity),
     status |-> status, orderType |-> "dine-in",
     tableNumber |-> SeedTableNumber(table), deliveryAddress |-> "",
     createdAt |-> createdAt, updatedAt |-> createdAt]

\* seedDatabase: menuData, two of its rows (Orange Juice 3.99, Artisan Coffee 4.99)
SeedMenu ==
    [i \in {1, 2} |-> [id |-> i, price |-> IF i = 1 THEN 3990 ELSE 4990, deleted |-> FALSE]]

----------------------------------------------------------------------------
(* Requests *)

NumStoredAdmins == 1   \* admins in the table at start, ids 1..NumStoredAdmins
MaxReqs         == 2   \* requests received in one run

\* the requests being served
Slots == DOMAIN reqs

Idle == [pc |-> "idle"]

\* a parameter of req.query: undefined, or a string, given by its characters
Absent == [given |-> FALSE, chars |-> <<>>]
Param(chars) == [given |-> TRUE, chars |-> chars]

\* req.query of getTopItems without parameters
NoQuery == [days |-> Absent, status |-> Absent, rankBy |-> Absent, limit |-> Absent]

\* usernames and emails are numbered strings, 0 being the empty string
DefaultBody ==
    [valid |-> TRUE, file |-> "none", username |-> 0, email |-> 0, password |-> "",
     status |-> "", price |-> 0, query |-> NoQuery]

NoDb == [ok |-> TRUE, found |-> FALSE, row |-> Null]

\* a request as the router receives it; `late` (history) tells that the
\* subject of its token was a deactivated admin when it arrived
NewReq(route, header, id, body, late) ==
    [route |-> route, header |-> header, params |-> [id |-> id], body |-> body,
     stage |-> 1, pc |-> "run", admin |-> NoAdmin, res |-> NoRes, trail |-> <<>>, db |-> NoDb,
     late |-> late]

StageOf(req) == Routes[req.route].stages[req.stage]

\* res.status(...).json(...): the request is answered
Done(req, res) == [req EXCEPT !.pc = "done", !.res = res]

\* next()
Advance(req) == [req EXCEPT !.stage = @ + 1, !.pc = "run"]

Enter(req, event) == [req EXCEPT !.trail = Append(@, event)]

\* authenticateAdmin up to its await
AuthSync(req, secretSet) ==
    LET token == TokenOf(req.header)
        pre   == AuthPrecheck(token, secretSet)
    IN  IF pre = "401" THEN Done(req, Unauthorized("Access denied. No token provided."))
        ELSE IF pre = "500" THEN Done(req, Error("Server configuration error", 500))
        ELSE IF ~JwtVerify(token)
             THEN Done(Enter(req, "jwt.verify"), Unauthorized("Invalid token."))
             ELSE [Enter(req, "jwt.verify") EXCEPT !.pc = "auth_db"]

\* a controller handler up to its first await
HandlerSync(req) ==
    LET name == StageOf(req).name
        b    == req.body
    IN  CASE name = "registerAdmin" ->
                IF b.username = 0 \/ b.email = 0 \/ b.password = ""
                THEN Done(req, Error("Username, email, and password are required", 400))
                ELSE [req EXCEPT !.pc = "h1"]
          [] name = "loginAdmin" ->
                IF b.email = 0 \/ b.password = ""
                THEN Done(req, Error("Email and password are required", 400))
                ELSE [req EXCEPT !.pc = "h1"]
          [] name = "getAdminProfile" ->
                IF ~req.admin.present THEN Done(req, Error("Failed to get admin profile", 500))
                ELSE IF req.admin.id = NoId THEN Done(req, Error("Authentication error", 401))
                ELSE [req EXCEPT !.pc = "h1"]
          [] name = "uploadImage" ->
                IF b.file = "none" THEN Done(req, Error("No image file provided", 400))
                ELSE Done(req, Success([imageUrl |-> "/uploads/image"],
                                       Str("Image uploaded successfully"), 200))
          [] OTHER -> [req EXCEPT !.pc = "h1"]

\* The middleware chain from the request's current stage on, as far as it
\* runs without suspending: the request, and the limiter Maps, afterwards.
RECURSIVE RunFrom(_, _, _)
RunFrom(req, maps, secretSet) ==
    LET st == StageOf(req)
        r  == Enter(req, st.kind)
    IN  CASE st.kind = "auth" -> [req |-> AuthSync(r, secretSet), maps |-> maps]
          [] st.kind = "role" ->
                LET o == RequireRole(st.roles, r.admin) IN
                IF o = "next" THEN RunFrom(Advance(r), maps, secretSet)
                ELSE [req |-> Done(r, RoleResponse(o)), maps |-> maps]
          [] st.kind = "limit" ->
                LET o == AdminRateLimit(maps[st.inst], limCfg[st.inst], AdminIdOf(r.admin), now)
                    m == [maps EXCEPT ![st.inst] = o.map]
                IN  IF o.status = "next" THEN RunFrom(Advance(r), m, secretSet)
                    ELSE [req  |-> Done(r, Error("Too many requests. Please try again later.", 429)),
                          maps |-> m]
          [] st.kind = "validate" ->
                IF r.body.valid THEN RunFrom(Advance(r), maps, secretSet)
                ELSE [req |-> Done(r, Error("Validation failed", 400)), maps |-> maps]
          [] st.kind = "upload" -> [req |-> [r EXCEPT !.pc = "upload"], maps |-> maps]
          [] st.kind = "handler" -> [req |-> HandlerSync(r), maps |-> maps]

----------------------------------------------------------------------------
(* The server: requests through the router, one action per resumption *)

\* Strings of usernames and emails are numbered; 0 is the empty string
NameIds == 0..(NumStoredAdmins + 1)

StoredAdmin(i, role, active) ==
    [id |-> i, username |-> i, email |-> i, password |-> Hash("pw"),
     role |-> One(role), isActive |-> active, createdAt |-> 0, updatedAt |-> 0]

TokensIn ==
    {[kind |-> "valid", id |-> i] : i \in 1..(NumStoredAdmins + 1)}
        \cup {[kind |-> k, id |-> 1] : k \in TokenKinds \ {"valid"}}

HeadersIn ==
    {NoHeader, [present |-> TRUE, bearer |-> TRUE, token |-> EmptyToken]}
        \cup {[present |-> TRUE, bearer |-> b, token |-> t] : b \in BOOLEAN, t \in TokensIn}

RegisterBodies ==
    {[DefaultBody EXCEPT !.valid = FALSE]}
        \cup {[DefaultBody EXCEPT !.username = u, !.email = e, !.password = p] :
                  u \in NameIds, e \in NameIds, p \in {"", "pw"}}

LoginBodies ==
    {[DefaultBody EXCEPT !.email = e, !.password = p] : e \in NameIds, p \in {"", "pw", "bad"}}

\* status values sent to PUT /orders/:id/status
StatusesIn == {"confirmed", "delivered", "cancelled"}

\* the request bodies and :id values a route is exercised with
BodiesFor(route) ==
    LET h == Routes[route].stages[Len(Routes[route].stages)].name IN
    CASE h = "registerAdmin" -> RegisterBodies
      [] h = "loginAdmin" -> LoginBodies
      [] h \in {"updateOrderStatus", EarlierUpdateOrderStatus} ->
            {[DefaultBody EXCEPT !.status = v] : v \in StatusesIn}
      [] h = "updateMenuItem" -> {[DefaultBody EXCEPT !.valid = v, !.price = 2] : v \in BOOLEAN}
      [] h \in {"uploadImage", "createMenuItem"} ->
            {[DefaultBody EXCEPT !.file = f, !.price = 2] : f \in {"none", "image", "other"}}
      [] OTHER -> {DefaultBody}

IdsFor(route) ==
    IF Routes[route].path \in {"/menu-items/:id", "/orders/:id/status"} THEN {1, 2} ELSE {0}

HeadersFor(route) ==
    IF Routes[route].path \in PublicPaths THEN {NoHeader} ELSE HeadersIn

Init ==
    /\ now = 0
    /\ limCfg = RouteLimits
    /\ requests = [i \in DOMAIN RouteLimits |-> EmptyMap]
    /\ passed = EmptyMap
    /\ denied = EmptyMap
    /\ last = NoCall
    /\ gate = EmptyMap
    /\ jwtSecret \in BOOLEAN
    /\ \E role \in Roles, active \in BOOLEAN :
           admins = [i \in 1..NumStoredAdmins |-> StoredAdmin(i, role, active)]
    /\ orders = [i \in {1} |-> SeedOrder(1, 1, SeedMenu[1], 1, "pending", 1, 0)]
    /\ menu = [i \in {1} |-> [id |-> 1, price |-> 1, deleted |-> FALSE]]
    /\ reqs = [s \in {1} |-> Idle]
    /\ issued = 0
    /\ checkout = NoCheckout
    /\ menuPage = NoPage

limiterHistory == <<now, limCfg, passed, last, denied, gate, jwtSecret>>

\* the router receives the given request and runs its chain up to the first await
Arrive(s, route, header, id, body) ==
    /\ reqs[s] = Idle
    /\ issued < MaxReqs
    /\ LET sub  == TokenOf(header).id
           late == sub \in DOMAIN admins /\ ~admins[sub].isActive
           r    == RunFrom(NewReq(route, header, id, body, late), requests, jwtSecret)
       IN
       /\ reqs' = [reqs EXCEPT ![s] = r.req]
       /\ requests' = r.maps
    /\ issued' = issued + 1
    /\ UNCHANGED <<limiterHistory, menuPage, checkout, admins, orders, menu>>

\* the routes of the current router (the earlier router's route is the last)
CurrentRoutes == 1..(Len(Routes) - 1)

\* the router receives a request
Receive(s) ==
    /\ reqs[s] = Idle
    /\ \E route \in CurrentRoutes :
       \E header \in HeadersFor(route), id \in IdsFor(route), body \in BodiesFor(route) :
           Arrive(s, route, header, id, body)

\* the response has gone out and the request is forgotten
Close(s) ==
    /\ reqs[s].pc = "done"
    /\ reqs' = [reqs EXCEPT ![s] = Idle]
    /\ UNCHANGED <<limiterHistory, menuPage, checkout, requests, admins, orders, menu, issued>>

\* Admin.findByPk(decoded.id, { attributes: { exclude: ['password'] } }) executes
AuthDb(s) ==
    /\ reqs[s].pc = "auth_db"
    /\ LET id == TokenOf(reqs[s].header).id IN
       \E ok \in BOOLEAN :
           reqs' = [reqs EXCEPT ![s] =
                       [Enter(@, "Admin.findByPk") EXCEPT
                           !.pc = "auth_ret",
                           !.db = IF ~ok THEN [NoDb EXCEPT !.ok = FALSE]
                                  ELSE IF id \in DOMAIN admins
                                       THEN [ok |-> TRUE, found |-> TRUE,
                                             row |-> Exclude(admins[id], "password")]
                                       ELSE NoDb]]
    /\ UNCHANGED <<limiterHistory, menuPage, checkout, requests, admins, orders, menu, issued>>

\* authenticateAdmin resumes after its await, and on next() the chain goes on
AuthResume_m(s) ==
    /\ reqs[s].pc = "auth_ret"
    /\ LET req == reqs[s]
           r == IF ~req.db.ok
                THEN [req |-> Done(req, Error("Internal Server Error", 500)), maps |-> requests]
                ELSE IF AdminRejected(req.db.found, req.db.row)
                THEN [req  |-> Done(req, Unauthorized("Invalid token or admin not active.")),
                      maps |-> requests]
                ELSE RunFrom(Advance([req EXCEPT !.admin = ReqAdminOf(req.db.row)]),
                             requests, jwtSecret)
       IN  /\ reqs' = [reqs EXCEPT ![s] = r.req]
           /\ requests' = r.maps
    /\ UNCHANGED <<limiterHistory, menuPage, checkout, admins, orders, menu, issued>>
AuthResume(s) ==
    /\ reqs[s].pc = "auth_ret"
    /\ LET req == reqs[s]
           r == IF ~req.db.ok
                THEN [req |-> Done(req, Unauthorized("Invalid token.")), maps |-> requests]
                ELSE IF AdminRejected(req.db.found, req.db.row)
                THEN [req  |-> Done(req, Unauthorized("Invalid token or admin not active.")),
                      maps |-> requests]
                ELSE RunFrom(Advance([req EXCEPT !.admin = ReqAdminOf(req.db.row)]),
                             requests, jwtSecret)
       IN  /\ reqs' = [reqs EXCEPT ![s] = r.req]
           /\ requests' = r.maps
    /\ UNCHANGED <<limiterHistory, menuPage, checkout, admins, orders, menu, issued>>

\* upload.single("image") has parsed the body: the fileFilter accepted the
\* file (or there was none), or it rejected it with an Error
UploadDone(s) ==
    /\ reqs[s].pc = "upload"
    /\ LET req == reqs[s]
           r == IF req.body.file = "other"
                THEN [req |-> Done(req, Error("Only image files are allowed!", 500)),
                      maps |-> requests]
                ELSE RunFrom(Advance(req), requests, jwtSecret)
       IN  /\ reqs' = [reqs EXCEPT ![s] = r.req]
           /\ requests' = r.maps
    /\ UNCHANGED <<limiterHistory, menuPage, checkout, admins, orders, menu, issued>>

\* an admin is deactivated (isActive set to false in the datastore)
Deactivate ==
    /\ \E id \in DOMAIN admins :
           /\ admins[id].isActive
           /\ admins' = [admins EXCEPT ![id].isActive = FALSE]
    /\ UNCHANGED <<limiterHistory, menuPage, checkout, requests, orders, menu, reqs, issued>>

----------------------------------------------------------------------------
(* adminController handlers, from their first await on *)

\* the request in slot s waits at position pc of handler `name`
At(s, name, pc) ==
    /\ reqs[s].pc = pc
    /\ StageOf(reqs[s]).kind = "handler"
    /\ StageOf(reqs[s]).name = name

\* { token, admin: { id, username, email, role } } of registerAdmin and loginAdmin
AuthData_m(admin) == [token |-> JwtSign(admin.id), admin |-> admin]
AuthData(admin) ==
    [token |-> JwtSign(admin.id),
     admin |-> [id |-> admin.id, username |-> admin.username, email |-> admin.email,
                role |-> admin.role]]

\* the body of getAdminProfile's answer
ProfileData(admin) ==
    [id |-> admin.id, username |-> admin.username, email |-> admin.email,
     name |-> admin.username, createdAt |-> admin.createdAt, updatedAt |-> admin.updatedAt]

\* Admin.findOne({ where: { [Op.or]: [{ email }, { username }] } })
ExistingAdmins(email, username) ==
    {id \in DOMAIN admins : admins[id].email = email \/ admins[id].username = username}

Min(S) == CHOOSE x \in S : \A y \in S : x <= y

\* registerAdmin: Admin.findOne resolves
RegisterFindOne(s) ==
    /\ At(s, "registerAdmin", "h1")
    /\ \E ok \in BOOLEAN :
           reqs' = [reqs EXCEPT ![s] =
                       IF ~ok THEN Done(@, Error("Server error during registration", 500))
                       ELSE IF ExistingAdmins(@.body.email, @.body.username) # {}
                       THEN Done(@, Conflict("Admin with this email or username already exists"))
                       ELSE [@ EXCEPT !.pc = "h2"]]
    /\ UNCHANGED <<limiterHistory, menuPage, checkout, requests, admins, orders, menu, issued>>

\* the Admin table keeps email and username unique: an insert of a row whose
\* email or username a stored admin has is rejected
UniqueViolation(row) == ExistingAdmins(row.email, row.username) # {}

\* registerAdmin: the password is hashed, Admin.create resolves (or is
\* rejected, and the catch answers 500), the token is signed
RegisterCreate(s) ==
    /\ At(s, "registerAdmin", "h2")
    /\ LET req == reqs[s]
           id  == Cardinality(DOMAIN admins) + 1
           row == [id |-> id, username |-> req.body.username, email |-> req.body.email,
                   password |-> Hash(req.body.password), role |-> One(DefaultRole),
                   isActive |-> DefaultActive, createdAt |-> now, updatedAt |-> now]
       IN  \E ok \in BOOLEAN :
               IF ~ok \/ UniqueViolation(row)
               THEN /\ admins' = admins
                    /\ reqs' = [reqs EXCEPT ![s] =
                                   Done(req, Error("Server error during registration", 500))]
               ELSE /\ admins' = [i \in DOMAIN admins \cup {id} |->
                                     IF i = id THEN row ELSE admins[i]]
                    /\ reqs' = [reqs EXCEPT ![s] =
                                   IF ~jwtSecret
                                   THEN Done(req, Error("Server error during registration", 500))
                                   ELSE Done(req, Success(AuthData(row),
                                                  Str("Admin registered successfully"), 201))]
    /\ UNCHANGED <<limiterHistory, menuPage, checkout, requests, orders, menu, issued>>

\* loginAdmin: Admin.findOne({ where: { email } }) resolves, the password is compared
LoginFind(s) ==
    /\ At(s, "loginAdmin", "h1")
    /\ LET req   == reqs[s]
           found == {id \in DOMAIN admins : admins[id].email = req.body.email}
       IN  \E ok \in BOOLEAN :
               reqs' = [reqs EXCEPT ![s] =
                   IF ~ok THEN Done(req, Error("Server error during login", 500))
                   ELSE IF found = {} THEN Done(req, Unauthorized("Invalid credentials"))
                   ELSE IF ~Compare(req.body.password, admins[Min(found)].password)
                   THEN Done(req, Unauthorized("Invalid credentials"))
                   ELSE IF ~jwtSecret THEN Done(req, Error("Server error during login", 500))
                   ELSE Done(req, Success(AuthData(admins[Min(found)]), Str("Login successful"), 200))]
    /\ UNCHANGED <<limiterHistory, menuPage, checkout, requests, admins, orders, menu, issued>>

\* getAdminProfile: Admin.findByPk(adminId, { attributes: { exclude: ["password"] } }) resolves
ProfileFind(s) ==
    /\ At(s, "getAdminProfile", "h1")
    /\ LET req == reqs[s]
           id  == req.admin.id
       IN  \E ok \in BOOLEAN :
               reqs' = [reqs EXCEPT ![s] =
                   IF ~ok THEN Done(req, Error("Failed to get admin profile", 500))
                   ELSE IF id \notin DOMAIN admins THEN Done(req, NotFound("Admin"))
                   ELSE Done(req, Success(Str("Admin profile retrieved successfully"),
                                          ProfileData(Exclude(admins[id], "password")), 200))]
    /\ UNCHANGED <<limiterHistory, menuPage, checkout, requests, admins, orders, menu, issued>>

\* order.status = status marks the instance changed when the value differs
\* from the loaded one; save() of an unchanged instance issues no query
Changed_m(loaded, status) == FALSE
Changed(loaded, status) == loaded # status

\* order.status = status: the value the instance holds afterwards
NewStatus_m(loaded, status) == IF loaded \in {"delivered", "cancelled"} THEN loaded ELSE status
NewStatus(loaded, status) == status

\* updateOrderStatus: Order.findByPk(id) resolves; order.status = status
OrderStatusFind(s) ==
    /\ At(s, "updateOrderStatus", "h1")
    /\ LET req == reqs[s]
           id  == req.params.id
       IN  \E ok \in BOOLEAN :
               reqs' = [reqs EXCEPT ![s] =
                   IF ~ok THEN Done(req, Error("Failed to update order status", 500))
                   ELSE IF id \notin DOMAIN orders THEN Done(req, NotFound("Order"))
                   ELSE [req EXCEPT !.pc = "h2",
                                    !.db = [ok |-> TRUE, found |-> TRUE,
                                            row |-> [orders[id] EXCEPT
                                                        !.status = NewStatus(@, req.body.status)],
                                            loaded |-> orders[id].status]]]
    /\ UNCHANGED <<limiterHistory, menuPage, checkout, requests, admins, orders, menu, issued>>

\* updateOrderStatus: order.save() resolves
OrderStatusSave(s) ==
    /\ At(s, "updateOrderStatus", "h2")
    /\ LET req == reqs[s]
           row == req.db.row
       IN  \E ok \in BOOLEAN :
               IF ~ok
               THEN /\ orders' = orders
                    /\ reqs' = [reqs EXCEPT ![s] =
                                   Done(req, Error("Failed to update order status", 500))]
               ELSE /\ orders' = IF Changed(req.db.loaded, row.status)
                                 THEN [orders EXCEPT ![row.id].status = row.status,
                                                     ![row.id].updatedAt = now]
                                 ELSE orders
                    /\ reqs' = [reqs EXCEPT ![s] =
                                   Done(req, Success(Str("Order status updated successfully"),
                                                     [order |-> [id |-> row.id, status |-> row.status]],
                                                     200))]
    /\ UNCHANGED <<limiterHistory, menuPage, checkout, requests, admins, menu, issued>>

\* where: { id }
MatchesWhere_m(row, id) == TRUE
MatchesWhere(row, id) == row.id = id

\* const [updated] = await Order.update(...): the number of rows matched
UpdatedRows_m(rows, id, status) == IF id \in DOMAIN rows /\ rows[id].status # status THEN 1 ELSE 0
UpdatedRows(rows, id, status) == IF id \in DOMAIN rows THEN 1 ELSE 0

\* updateOrderStatus (earlier version): Order.update({ status }, { where: { id } })
\* resolves
OrderStatusUpdate(s) ==
    /\ At(s, EarlierUpdateOrderStatus, "h1")
    /\ LET req == reqs[s]
           id  == req.params.id
       IN  \E ok \in BOOLEAN :
               IF ~ok
               THEN /\ orders' = orders
                    /\ reqs' = [reqs EXCEPT ![s] = Done(req, Error("Error updating order status", 500))]
               ELSE /\ orders' = [i \in DOMAIN orders |->
                                     IF MatchesWhere(orders[i], id)
                                     THEN [orders[i] EXCEPT !.status = req.body.status,
                                                            !.updatedAt = now]
                                     ELSE orders[i]]
                    /\ reqs' = [reqs EXCEPT ![s] =
                                   IF UpdatedRows(orders, id, req.body.status) # 0
                                   THEN [req EXCEPT !.pc = "h2"]
                                   ELSE Done(req, NotFound("Order"))]
    /\ UNCHANGED <<limiterHistory, menuPage, checkout, requests, admins, menu, issued>>

\* updateOrderStatus (earlier version): Order.findByPk(id) resolves
OrderStatusReload(s) ==
    /\ At(s, EarlierUpdateOrderStatus, "h2")
    /\ LET req == reqs[s]
           id  == req.params.id
       IN  \E ok \in BOOLEAN :
               reqs' = [reqs EXCEPT ![s] =
                   IF ~ok THEN Done(req, Error("Error updating order status", 500))
                   ELSE Done(req, Success(IF id \in DOMAIN orders THEN orders[id] ELSE Null,
                                          Str("Order status updated successfully"), 200))]
    /\ UNCHANGED <<limiterHistory, menuPage, checkout, requests, admins, orders, menu, issued>>

MenuExists(id) == id \in DOMAIN menu /\ ~menu[id].deleted

\* createMenuItem: MenuItem.create resolves
MenuCreate(s) ==
    /\ At(s, "createMenuItem", "h1")
    /\ LET req == reqs[s]
           id  == Cardinality(DOMAIN menu) + 1
           row == [id |-> id, price |-> req.body.price, deleted |-> FALSE]
       IN  \E ok \in BOOLEAN :
               IF ~ok
               THEN /\ menu' = menu
                    /\ reqs' = [reqs EXCEPT ![s] = Done(req, Error("Error creating menu item", 500))]
               ELSE /\ menu' = [i \in DOMAIN menu \cup {id} |-> IF i = id THEN row ELSE menu[i]]
                    /\ reqs' = [reqs EXCEPT ![s] =
                                   Done(req, Success(row, Str("Menu item created successfully"), 201))]
    /\ UNCHANGED <<limiterHistory, menuPage, checkout, requests, admins, orders, issued>>

\* updateMenuItem: MenuItem.update(req.body, { where: { id } }) resolves
MenuUpdate(s) ==
    /\ At(s, "updateMenuItem", "h1")
    /\ LET req == reqs[s]
           id  == req.params.id
       IN  \E ok \in BOOLEAN :
               IF ~ok
               THEN /\ menu' = menu
                    /\ reqs' = [reqs EXCEPT ![s] = Done(req, Error("Error updating menu item", 500))]
               ELSE IF MenuExists(id)
               THEN /\ menu' = [menu EXCEPT ![id].price = req.body.price]
                    /\ reqs' = [reqs EXCEPT ![s].pc = "h2"]
               ELSE /\ menu' = menu
                    /\ reqs' = [reqs EXCEPT ![s] = Done(req, NotFound("Menu item"))]
    /\ UNCHANGED <<limiterHistory, menuPage, checkout, requests, admins, orders, issued>>

\* updateMenuItem: MenuItem.findByPk(id) resolves
MenuUpdateReload(s) ==
    /\ At(s, "updateMenuItem", "h2")
    /\ LET req == reqs[s]
           id  == req.params.id
       IN  \E ok \in BOOLEAN :
               reqs' = [reqs EXCEPT ![s] =
                   IF ~ok THEN Done(req, Error("Error updating menu item", 500))
                   ELSE Done(req, Success(IF MenuExists(id) THEN menu[id] ELSE Null,
                                          Str("Menu item updated successfully"), 200))]
    /\ UNCHANGED <<limiterHistory, menuPage, checkout, requests, admins, orders, menu, issued>>

\* deleteMenuItem: MenuItem.destroy({ where: { id } }) resolves
MenuDestroy(s) ==
    /\ At(s, "deleteMenuItem", "h1")
    /\ LET req == reqs[s]
           id  == req.params.id
       IN  \E ok \in BOOLEAN :
               IF ~ok
               THEN /\ menu' = menu
                    /\ reqs' = [reqs EXCEPT ![s] = Done(req, Error("Error deleting menu item", 500))]
               ELSE IF MenuExists(id)
               THEN /\ menu' = [menu EXCEPT ![id].deleted = TRUE]
                    /\ reqs' = [reqs EXCEPT ![s] =
                                   Done(req, Success(Null, Str("Menu item deleted successfully"), 200))]
               ELSE /\ menu' = menu
                    /\ reqs' = [reqs EXCEPT ![s] = Done(req, NotFound("Menu item"))]
    /\ UNCHANGED <<limiterHistory, menuPage, checkout, requests, admins, orders, issued>>

----------------------------------------------------------------------------
(* getTopItems *)

\* the characters of the strings that getTopItems compares or defaults to
Text ==
    [str \in {"all", "revenue", "quantity", "7", "5"} \cup LifecycleStates \cup {"completed"} |->
        CASE str = "all"       -> <<"a", "l", "l">>
          [] str = "revenue"   -> <<"r", "e", "v", "e", "n", "u", "e">>
          [] str = "quantity"  -> <<"q", "u", "a", "n", "t", "i", "t", "y">>
          [] str = "7"         -> <<"7">>
          [] str = "5"         -> <<"5">>
          [] str = "pending"   -> <<"p", "e", "n", "d", "i", "n", "g">>
          [] str = "confirmed" -> <<"c", "o", "n", "f", "i", "r", "m", "e", "d">>
          [] str = "preparing" -> <<"p", "r", "e", "p", "a", "r", "i", "n", "g">>
          [] str = "ready"     -> <<"r", "e", "a", "d", "y">>
          [] str = "delivered" -> <<"d", "e", "l", "i", "v", "e", "r", "e", "d">>
          [] str = "completed" -> <<"c", "o", "m", "p", "l", "e", "t", "e", "d">>
          [] str = "cancelled" -> <<"c", "a", "n", "c", "e", "l", "l", "e", "d">>]

\* const { days = "7", ... } = req.query: the default stands in for undefined only
Default(param, str) == IF param.given THEN param.chars ELSE Text[str]

DigitValue ==
    [c \in {"0", "1", "2", "3", "4", "5", "6", "7", "8", "9"} |->
        CASE c = "0" -> 0 [] c = "1" -> 1 [] c = "2" -> 2 [] c = "3" -> 3 [] c = "4" -> 4
          [] c = "5" -> 5 [] c = "6" -> 6 [] c = "7" -> 7 [] c = "8" -> 8 [] c = "9" -> 9]

\* the string without its leading white space
RECURSIVE TrimStart(_)
TrimStart(chars) ==
    IF chars # <<>> /\ Head(chars) = " " THEN TrimStart(Tail(chars)) ELSE chars

\* the length of the longest prefix of digits
RECURSIVE DigitRun(_)
DigitRun(chars) ==
    IF chars # <<>> /\ Head(chars) \in DOMAIN DigitValue THEN 1 + DigitRun(Tail(chars)) ELSE 0

\* the value of a string of n digits
RECURSIVE Decimal(_, _)
Decimal(chars, n) == IF n = 0 THEN 0 ELSE 10 * Decimal(chars, n - 1) + DigitValue[chars[n]]

\* parseInt(string, 10): white space, an optional sign, then digits up to the
\* first character that is not one; NaN (nan) when there is no digit
ParseInt(chars) ==
    LET t      == TrimStart(chars)
        signed == t # <<>> /\ Head(t) \in {"+", "-"}
        digits == IF signed THEN Tail(t) ELSE t
        n      == DigitRun(digits)
    IN  [nan   |-> n = 0,
         value |-> IF signed /\ Head(t) = "-" THEN 0 - Decimal(digits, n)
                   ELSE Decimal(digits, n)]

\* Math.min(parseInt(limit, 10) || 5, 50)
Lim(limit) ==
    LET p == ParseInt(limit)
        v == IF p.nan \/ p.value = 0 THEN 5 ELSE p.value
    IN  IF v < 50 THEN v ELSE 50

DayMs == 24 * 60 * 60 * 1000

\* the where clause: createdAt >= Date.now() - daysNum days when daysNum is a
\* positive number, and status = status unless it is empty or "all"
Selected(order, days, status, t) ==
    LET daysNum == ParseInt(days) IN
    /\ (~daysNum.nan /\ daysNum.value > 0) => order.createdAt >= t - daysNum.value * DayMs
    /\ (status # <<>> /\ status # Text["all"]) => Text[order.status] = status

\* e put into a sequence of [k, v] that has the larger k first, behind the
\* entries whose k is not smaller
InsertDesc_m(sorted, e) ==
    LET p == Cardinality({i \in 1..Len(sorted) : sorted[i].k <= e.k}) IN
    SubSeq(sorted, 1, p) \o <<e>> \o SubSeq(sorted, p + 1, Len(sorted))
InsertDesc(sorted, e) ==
    LET p == Cardinality({i \in 1..Len(sorted) : sorted[i].k >= e.k}) IN
    SubSeq(sorted, 1, p) \o <<e>> \o SubSeq(sorted, p + 1, Len(sorted))

\* seq[lo..hi] put into sorted one after the other; the range is halved, and
\* the test on `left` has the first half evaluated before the second starts,
\* which keeps the evaluation shallow
RECURSIVE InsertAll(_, _, _, _)
InsertAll(sorted, seq, lo, hi) ==
    IF lo > hi THEN sorted
    ELSE IF lo = hi THEN InsertDesc(sorted, seq[lo])
    ELSE LET mid  == (lo + hi) \div 2
             left == InsertAll(sorted, seq, lo, mid)
         IN  IF Len(left) = 0 THEN InsertAll(<<>>, seq, mid + 1, hi)
             ELSE InsertAll(left, seq, mid + 1, hi)

\* a sequence of [k, v] with the larger k first, entries of equal k staying
\* in the order they had (Array.prototype.sort is stable)
SortDesc(seq) == InsertAll(<<>>, seq, 1, Len(seq))

Values(seq) == [i \in 1..Len(seq) |-> seq[i].v]

\* Order.findAll({ where, order: [["createdAt", "DESC"]] }); rows of equal
\* createdAt come in the order of their ids
RECURSIVE RowsById(_, _)
RowsById(rows, n) ==
    IF n = 0 THEN <<>>
    ELSE RowsById(rows, n - 1) \o (IF n \in DOMAIN rows THEN <<rows[n]>> ELSE <<>>)

FindAll(rows, days, status, t) ==
    LET all == RowsById(rows, Cardinality(DOMAIN rows)) IN
    Values(SortDesc(SelectSeq([i \in 1..Len(all) |-> [k |-> all[i].createdAt, v |-> all[i]]],
                              LAMBDA e : Selected(e.v, days, status, t))))

\* the line items of the rows, in the order the two loops visit them
RECURSIVE LineItems(_)
LineItems(rows) == IF rows = <<>> THEN <<>> ELSE Head(rows).items \o LineItems(Tail(rows))

\* qty * price, what a line item adds to totalRevenue
Revenue_m(qty, price) == price
Revenue(qty, price) == qty * price

\* one pass of the inner loop: the aggregates Map (its values, in insertion
\* order) after the line item it
Accumulate(aggregates, it) ==
    LET at == {i \in 1..Len(aggregates) : aggregates[i].id = it.id} IN
    IF at = {}
    THEN Append(aggregates, [id |-> it.id, totalQuantity |-> it.quantity,
                             totalRevenue |-> Revenue(it.quantity, it.price)])
    ELSE LET i == CHOOSE i \in at : TRUE IN
         [aggregates EXCEPT ![i].totalQuantity = @ + it.quantity,
                            ![i].totalRevenue = @ + Revenue(it.quantity, it.price)]

\* the aggregates Map after the line items items[lo..hi], visited one after
\* the other; the range is halved, and the test on `left` has the first half
\* evaluated before the second starts, which keeps the evaluation shallow
RECURSIVE AccumulateAll(_, _, _, _)
AccumulateAll(aggregates, items, lo, hi) ==
    IF lo > hi THEN aggregates
    ELSE IF lo = hi THEN Accumulate(aggregates, items[lo])
    ELSE LET mid  == (lo + hi) \div 2
             left == AccumulateAll(aggregates, items, lo, mid)
         IN  IF Len(left) = 0 THEN AccumulateAll(<<>>, items, mid + 1, hi)
             ELSE AccumulateAll(left, items, mid + 1, hi)

\* the aggregates Map after the two loops
Aggregates(items) == AccumulateAll(<<>>, items, 1, Len(items))

\* Array.prototype.slice(0, end): a negative end counts from the end of the array
Slice0(seq, end) ==
    LET n == Len(seq)
        e == IF end < 0 THEN (IF n + end < 0 THEN 0 ELSE n + end)
             ELSE IF end < n THEN end ELSE n
    IN  SubSeq(seq, 1, e)

\* the array getTopItems answers with
TopItems(rows, query, t) ==
    LET days     == Default(query.days, "7")
        status   == IF query.status.given THEN query.status.chars ELSE Text["delivered"]
        rankBy   == Default(query.rankBy, "quantity")
        limit    == Default(query.limit, "5")
        found    == FindAll(rows, days, status, t)
        itemsArr == Aggregates(LineItems(found))
        \* itemsArr.sort(...): by totalRevenue when rankBy is "revenue", else by
        \* totalQuantity
        ranked   == Values(SortDesc([i \in 1..Len(itemsArr) |->
                               [k |-> IF rankBy = Text["revenue"] THEN itemsArr[i].totalRevenue
                                      ELSE itemsArr[i].totalQuantity,
                                v |-> itemsArr[i]]]))
    IN  Slice0(ranked, Lim(limit))

(* getDashboardStats and AdminHelpers.calculateRevenue *)

\* a quotient num / den of two numbers, kept exact
Ratio(num, den) == [num |-> num, den |-> den]

\* createdAt >= new Date(t - days * 24 * 60 * 60 * 1000), compared in days:
\* days * DayMs >= t - createdAt exactly when days >= ceil((t - createdAt) / DayMs)
Since(createdAt, t, days) == days >= -((createdAt - t) \div DayMs)

\* SUM(totalAmount) over the rows with the given ids
RECURSIVE SumAmount(_, _)
SumAmount(rows, ids) ==
    IF ids = {} THEN 0
    ELSE LET i == CHOOSE j \in ids : TRUE IN rows[i].totalAmount + SumAmount(rows, ids \ {i})

\* const { days = 30 } = req.query; parseInt(days)
DaysOf(q) == IF q.days.given THEN ParseInt(q.days.chars) ELSE [nan |-> FALSE, value |-> 30]

\* dateFilter of getDashboardStats: createdAt >= Date.now() - parseInt(days)
\* days, days being 30 when the query has none; no date is >= an invalid date
DateFilter(rows, q, t) ==
    LET days == DaysOf(q) IN
    {i \in DOMAIN rows : ~days.nan /\ Since(rows[i].createdAt, t, days.value)}

\* overview of getDashboardStats: Order.count over the date filter,
\* Order.sum('totalAmount') over its rows that are not cancelled, MenuItem.count,
\* and totalRevenue / totalOrders (0 when totalOrders is 0)
Overview(rows, items, q, t) ==
    LET inWindow == DateFilter(rows, q, t)
        totalOrders == Cardinality(inWindow)
        totalRevenue == SumAmount(rows, {i \in inWindow : rows[i].status # "cancelled"})
    IN  [totalOrders |-> totalOrders,
         totalRevenue |-> totalRevenue,
         totalMenuItems |-> Cardinality({i \in DOMAIN items : ~items[i].deleted}),
         averageOrderValue |-> IF totalOrders > 0 THEN Ratio(totalRevenue, totalOrders)
                               ELSE Ratio(0, 1)]

\* getDashboardStats: the queries resolve and it answers with the overview
\* (the breakdowns by status, type, day, hour and category are left out), or a
\* query fails and it answers 500
DashboardStats(s) ==
    /\ At(s, "getDashboardStats", "h1")
    /\ \E ok \in BOOLEAN :
           reqs' = [reqs EXCEPT ![s] =
                       IF ok THEN Done(@, Success([overview |-> Overview(orders, menu, @.body.query, now)],
                                                      Str("Dashboard statistics retrieved successfully"), 200))
                       ELSE Done(@, Error("Failed to get dashboard statistics", 500))]
    /\ UNCHANGED <<limiterHistory, menuPage, checkout, requests, admins, orders, menu, issued>>

\* AdminHelpers.calculateRevenue: COUNT(id), SUM(totalAmount) and
\* AVG(totalAmount) over the orders that are not cancelled and were created in
\* [dateRange.start, dateRange.end); the sum and the average of no row are 0
calculateRevenue(rows, dateRange) ==
    LET ids == {i \in DOMAIN rows : /\ rows[i].createdAt >= dateRange.start
                                    /\ rows[i].createdAt < dateRange.end
                                    /\ rows[i].status # "cancelled"}
        orderCount == Cardinality(ids)
        totalRevenue == SumAmount(rows, ids)
    IN  [orderCount |-> orderCount,
         totalRevenue |-> totalRevenue,
         averageOrderValue |-> IF orderCount > 0 THEN Ratio(totalRevenue, orderCount)
                               ELSE Ratio(0, 1)]

\* getTopItems: Order.findAll resolves and the handler answers
TopItemsQuery(s) ==
    /\ At(s, "getTopItems", "h1")
    /\ \E ok \in BOOLEAN :
           reqs' = [reqs EXCEPT ![s] =
                       IF ok THEN Done(@, Success(Arr(TopItems(orders, @.body.query, now)),
                                                      Str("Top items computed successfully"), 200))
                       ELSE Done(@, Error("Failed to compute top items", 500))]
    /\ UNCHANGED <<limiterHistory, menuPage, checkout, requests, admins, orders, menu, issued>>

\* a read-only handler: its queries resolve and it answers, or it answers 500
ReadOnlyQuery(s) ==
    /\ reqs[s].pc = "h1"
    /\ StageOf(reqs[s]).name \in ReadOnlyHandlers
    /\ \E ok \in BOOLEAN :
           reqs' = [reqs EXCEPT ![s] =
                       IF ok THEN Done(@, Success(Str("query result"), Str("retrieved successfully"), 200))
                       ELSE Done(@, Error("Failed", 500))]
    /\ UNCHANGED <<limiterHistory, menuPage, checkout, requests, admins, orders, menu, issued>>

Next ==
    \/ \E s \in Slots : Receive(s)
    \/ \E s \in Slots : Close(s)
    \/ \E s \in Slots : AuthDb(s)
    \/ \E s \in Slots : AuthResume(s)
    \/ \E s \in Slots : UploadDone(s)
    \/ \E s \in Slots : RegisterFindOne(s)
    \/ \E s \in Slots : RegisterCreate(s)
    \/ \E s \in Slots : LoginFind(s)
    \/ \E s \in Slots : ProfileFind(s)
    \/ \E s \in Slots : OrderStatusFind(s)
    \/ \E s \in Slots : OrderStatusSave(s)
    \/ \E s \in Slots : MenuCreate(s)
    \/ \E s \in Slots : MenuUpdate(s)
    \/ \E s \in Slots : MenuUpdateReload(s)
    \/ \E s \in Slots : MenuDestroy(s)
    \/ \E s \in Slots : ReadOnlyQuery(s)
    \/ \E s \in Slots : TopItemsQuery(s)
    \/ \E s \in Slots : DashboardStats(s)
    \/ Deactivate

Spec == Init /\ [][Next]_vars

----------------------------------------------------------------------------
(* Order creation: the checkout dialog (OrderModal) and POST /user/orders *)

MaxOrders == 2   \* rows of the Order table, and order creation attempts

\* sum of price * quantity over line items
RECURSIVE SumItems(_)
SumItems(items) ==
    IF items = <<>> THEN 0
    ELSE Head(items).price * Head(items).quantity + SumItems(Tail(items))

\* convertToRWF of utils/currency: a conversion at some rate
RwfRates == {1, 1300}
ConvertToRWF(price, rate) == price * rate

\* OrderModal: total = cartItems.reduce((sum, item) =>
\*     sum + convertToRWF(item.price) * item.quantity, 0)
RECURSIVE Total(_, _)
Total(cartItems, rate) ==
    IF cartItems = <<>> THEN 0
    ELSE ConvertToRWF(Head(cartItems).price, rate) * Head(cartItems).quantity
             + Total(Tail(cartItems), rate)

\* the tableNumber prop of OrderModal: absent (then it defaults to 1), or a string
NoTable == [given |-> FALSE, value |-> ""]
Table(value) == [given |-> TRUE, value |-> value]
TableNumberOf(prop) == IF prop.given THEN prop.value ELSE "1"

\* OrderModal.handleSubmit: the checks before the request
SubmitBlocked_m(userToken, hasName, tableNumber) == userToken = "none" \/ ~hasName
SubmitBlocked(userToken, hasName, tableNumber) ==
    userToken = "none" \/ ~hasName \/ tableNumber = ""

\* OrderModal.handleSubmit: orderData
OrderData(cartItems, tableNumber, rate) ==
    [items |-> [i \in DOMAIN cartItems |->
                   LineItem(cartItems[i].id, cartItems[i].price, cartItems[i].quantity)],
     totalAmount |-> Total(cartItems, rate),
     orderType |-> "dine-in",
     tableNumber |-> tableNumber,
     deliveryAddress |-> ""]

\* createOrder and validateOrder: the item list is non-empty, every quantity
\* is positive and the field the orderType requires is there
ValidOrder(body) ==
    /\ body.items # <<>>
    /\ \A i \in DOMAIN body.items : body.items[i].quantity > 0
    /\ body.orderType \in {"dine-in", "delivery"}
    /\ body.orderType = "dine-in" => body.tableNumber # ""
    /\ body.orderType = "delivery" => body.deliveryAddress # ""

\* POST /user/orders: authenticateUser, validateOrder, createOrder
CreateOrderStatus(body, userToken) ==
    IF userToken # "valid" THEN 401
    ELSE IF ~ValidOrder(body) THEN 400
    ELSE 201

\* createOrder: the row it persists
NewOrder(id, userId, body, t) ==
    [id |-> id, userId |-> userId, items |-> body.items,
     totalAmount |-> SumItems(body.items),
     status |-> "pending", orderType |-> body.orderType,
     tableNumber |-> body.tableNumber, deliveryAddress |-> body.deliveryAddress,
     createdAt |-> t, updatedAt |-> t]

\* an attempt to create an order: the request, when one is sent, is served by
\* POST /user/orders
Submit(via, sent, body, userToken) ==
    LET status == IF sent THEN CreateOrderStatus(body, userToken) ELSE 0
        id     == Cardinality(DOMAIN orders) + 1
    IN  /\ orders' = IF status = 201
                     THEN [i \in DOMAIN orders \cup {id} |->
                              IF i = id THEN NewOrder(id, 1, body, now) ELSE orders[i]]
                     ELSE orders
        /\ checkout' = [n |-> checkout.n + 1, via |-> via, sent |-> sent, body |-> body,
                        status |-> status, id |-> IF status = 201 THEN id ELSE NoId]
        /\ UNCHANGED <<limiterHistory, menuPage, requests, admins, menu, reqs, issued>>

\* a cart entry: a menu item as the menu page fetched it, and a quantity
CartItem(item, quantity) == [id |-> item.id, price |-> item.price, quantity |-> quantity]

\* the customer submits the checkout dialog
Checkout(carts, userTokens, names, tableProps, rates) ==
    /\ checkout.n < MaxOrders
    /\ Cardinality(DOMAIN orders) < MaxOrders
    /\ \E cartItems \in carts, userToken \in userTokens, hasName \in names,
          prop \in tableProps, rate \in rates :
           LET tableNumber == TableNumberOf(prop) IN
           Submit("dialog", ~SubmitBlocked(userToken, hasName, tableNumber),
                  OrderData(cartItems, tableNumber, rate), userToken)

\* a client other than the dialog sends POST /user/orders
Post(bodies, userTokens) ==
    /\ checkout.n < MaxOrders
    /\ Cardinality(DOMAIN orders) < MaxOrders
    /\ \E body \in bodies, userToken \in userTokens : Submit("api", TRUE, body, userToken)

\* seedDatabase: one round of its order loop; seeding precedes serving
Seed(items, quantities, tables) ==
    /\ issued = 0
    /\ checkout.n = 0
    /\ Cardinality(DOMAIN orders) < MaxOrders
    /\ \E item \in items, quantity \in quantities, table \in tables,
          k \in DOMAIN orderStatuses :
           LET id == Cardinality(DOMAIN orders) + 1 IN
           orders' = [i \in DOMAIN orders \cup {id} |->
                         IF i = id
                         THEN SeedOrder(id, 1, item, quantity, orderStatuses[k], table, now)
                         ELSE orders[i]]
    /\ UNCHANGED <<limiterHistory, menuPage, checkout, requests, admins, menu, reqs, issued>>

\* the carts, bodies and draws that order creation is exercised with
CartsIn ==
    {<<>>,
     <<CartItem(SeedMenu[1], 1)>>,
     <<CartItem(SeedMenu[2], 2)>>,
     <<CartItem(SeedMenu[1], 2), CartItem(SeedMenu[2], 1)>>}

PostBodies ==
    {[items |-> c, totalAmount |-> SumItems(c), orderType |-> t, tableNumber |-> n,
      deliveryAddress |-> a] :
        c \in {<<>>, <<LineItem(1, 3990, 0)>>, <<LineItem(2, 4990, 1)>>},
        t \in {"dine-in", "delivery"}, n \in {"", "7"}, a \in {"", "12 Main St"}}

InitCreate ==
    /\ now = 0
    /\ limCfg = RouteLimits
    /\ requests = [i \in DOMAIN RouteLimits |-> EmptyMap]
    /\ passed = EmptyMap
    /\ denied = EmptyMap
    /\ last = NoCall
    /\ gate = EmptyMap
    /\ jwtSecret = TRUE
    /\ admins = [i \in {1} |-> StoredAdmin(1, "admin", TRUE)]
    /\ orders = EmptyMap
    /\ menu = SeedMenu
    /\ reqs = [s \in {1} |-> Idle]
    /\ issued = 0
    /\ checkout = NoCheckout
    /\ menuPage = NoPage

NextCreate ==
    \/ Seed({SeedMenu[1], SeedMenu[2]}, {1, 3}, {20})
    \/ Checkout(CartsIn, {"none", "valid", "expired"}, BOOLEAN,
                {NoTable, Table(""), Table("7")}, RwfRates)
    \/ Post(PostBodies, {"none", "valid"})

SpecCreate == InitCreate /\ [][NextCreate]_vars

----------------------------------------------------------------------------
(* Properties of order creation (checked under SpecCreate) *)

\* the orders the step creates
Created == DOMAIN orders' \ DOMAIN orders

\* C15: an order's totalAmount is the sum of price * quantity over its line
\* items at the moment it is created, by the seeding script or through the
\* checkout dialog and POST /user/orders.
C15_Step ==
    \A id \in Created : orders'[id].totalAmount = SumItems(orders'[id].items)

MissingRequired(o) ==
    \/ o.orderType = "dine-in" /\ o.tableNumber = ""
    \/ o.orderType = "delivery" /\ o.deliveryAddress = ""

\* C17: every stored dine-in order has a non-empty tableNumber and every
\* stored delivery order a non-empty deliveryAddress ...
C17_Stored == \A i \in DOMAIN orders : ~MissingRequired(orders[i])

\* ... and a checkout attempt that lacks the field its orderType requires
\* creates no order.
C17_Attempt ==
    (checkout'.n # checkout.n /\ MissingRequired(checkout'.body)) =>
        /\ orders' = orders
        /\ checkout'.status # 201

\* C17: stored orders always carry the field their orderType requires, and no
\* attempt that lacks it creates an order.
C17_RequiredField == []C17_Stored /\ [][C17_Attempt]_vars

\* a delivery order with its address is stored, and a later dine-in attempt
\* without a table number was answered 400
C17_Witness ==
    /\ \E i \in DOMAIN orders :
           orders[i].orderType = "delivery" /\ orders[i].deliveryAddress = "12 Main St"
    /\ checkout.sent
    /\ checkout.status = 400
    /\ checkout.body.orderType = "dine-in"
    /\ checkout.body.tableNumber = ""
    /\ checkout.body.items # <<>>

----------------------------------------------------------------------------
(* The order lifecycle: seeding, then an admin's requests on orders and menu *)

\* status values sent to PUT /orders/:id/status: the six lifecycle states and
\* the one the seeding script stores besides
OrderStatusesIn == LifecycleStates \cup {"completed"}

\* the routes that write orders or menu items
OrderRoutes ==
    {r \in DOMAIN Routes :
        Routes[r].stages[Len(Routes[r].stages)].name \in
            {"updateOrderStatus", EarlierUpdateOrderStatus, "updateMenuItem", "deleteMenuItem"}}

StatusRoutes == {r \in OrderRoutes : Routes[r].path = "/orders/:id/status"}

\* Authorization: Bearer <token of admin 1>
AdminHeader == [present |-> TRUE, bearer |-> TRUE, token |-> JwtSign(1)]

\* an authenticated admin sends a status update, a menu item update or a
\* menu item deletion
OrderRequest(s) ==
    /\ reqs[s] = Idle
    /\ \/ \E route \in StatusRoutes, id \in 1..(MaxOrders + 1), v \in OrderStatusesIn :
              Arrive(s, route, AdminHeader, id, [DefaultBody EXCEPT !.status = v])
       \/ \E route \in OrderRoutes \ StatusRoutes :
              Arrive(s, route, AdminHeader, 1, [DefaultBody EXCEPT !.price = 5990])

InitOrders == InitCreate

NextOrders ==
    \/ Seed({SeedMenu[1]}, {2}, {5})
    \/ Checkout({<<CartItem(menu[1], 1)>>}, {"valid"}, {TRUE}, {NoTable}, {1300})
    \/ \E s \in Slots : OrderRequest(s)
    \/ \E s \in Slots : Close(s)
    \/ \E s \in Slots : AuthDb(s)
    \/ \E s \in Slots : AuthResume(s)
    \/ \E s \in Slots : OrderStatusFind(s)
    \/ \E s \in Slots : OrderStatusSave(s)
    \/ \E s \in Slots : OrderStatusUpdate(s)
    \/ \E s \in Slots : OrderStatusReload(s)
    \/ \E s \in Slots : MenuUpdate(s)
    \/ \E s \in Slots : MenuUpdateReload(s)
    \/ \E s \in Slots : MenuDestroy(s)

SpecOrders == InitOrders /\ [][NextOrders]_vars

----------------------------------------------------------------------------
(* Properties of updateOrderStatus (checked under SpecOrders) *)

\* the requests in service that are status updates
StatusUpdates ==
    {s \in Slots : reqs[s].pc # "idle" /\ Routes[reqs[s].route].path = "/orders/:id/status"}

\* the handler of the status update in slot s answers in this step
Answers(s) == s \in StatusUpdates /\ reqs[s].pc \in {"h1", "h2"} /\ reqs'[s].pc = "done"

\* the order a response body carries: data, data.order or message.order
OrderIn(body) ==
    IF "order" \in DOMAIN body.message THEN body.message.order
    ELSE IF "order" \in DOMAIN body.data THEN body.data.order
    ELSE body.data

\* the response tells success and carries the order's id and status
SuccessWith(res, id, status) ==
    /\ res.status = 200
    /\ res.body.success
    /\ {"id", "status"} \subseteq DOMAIN OrderIn(res.body)
    /\ OrderIn(res.body).id = id
    /\ OrderIn(res.body).status = status

\* C11: a status update for an order id that is not stored changes no order
\* and its handler answers 404 (or 500 when the datastore call fails); 404 is
\* answered for such ids only.  For a stored order the handler answers success
\* with the order's id and the new status, which is then the stored status (or
\* 500 when a datastore call fails).
C11_Step ==
    \A s \in StatusUpdates :
        LET id == reqs[s].params.id
            v  == reqs[s].body.status
            res == reqs'[s].res
        IN  /\ id \notin DOMAIN orders => \A i \in DOMAIN orders : orders'[i] = orders[i]
            /\ Answers(s) =>
                /\ id \notin DOMAIN orders => res.status \in {404, 500}
                /\ res.status = 404 => id \notin DOMAIN orders /\ ~res.body.success
                /\ id \in DOMAIN orders =>
                    /\ res.status \in {200, 500}
                    /\ res.status = 200 => SuccessWith(res, id, v) /\ orders'[id].status = v

\* C11: every step answers a status update as stated above.
C11_UpdateOrderStatus == [][C11_Step]_vars

\* an earlier update moved order 1 to delivered, and an update for an id that
\* is not stored has been answered 404
C11_Witness ==
    \E s \in StatusUpdates :
        /\ reqs[s].pc = "done"
        /\ reqs[s].res.status = 404
        /\ reqs[s].params.id \notin DOMAIN orders
        /\ 1 \in DOMAIN orders
        /\ orders[1].status = "delivered"

\* the step is the one in which the write of the status update in slot s
\* resolves: order.save(), or Order.update of the earlier version
Writes(s) ==
    /\ s \in StatusUpdates
    /\ reqs[s].params.id \in DOMAIN orders
    /\ \/ reqs[s].pc = "h2" /\ StageOf(reqs[s]).name = "updateOrderStatus"
             /\ reqs'[s].res.status = 200
       \/ reqs[s].pc = "h1" /\ StageOf(reqs[s]).name = EarlierUpdateOrderStatus
             /\ reqs'[s].pc = "h2"

\* C12: no transition table is enforced: whatever the status of a stored order
\* and whatever status value an authenticated admin's PUT /orders/:id/status
\* asks for, the handler never rejects the request, and once its write has
\* resolved the order has the requested status.
C12_Step ==
    \A s \in StatusUpdates :
        LET id == reqs[s].params.id
            v  == reqs[s].body.status
        IN  /\ Writes(s) => orders'[id].status = v
            /\ Answers(s) /\ id \in DOMAIN orders => reqs'[s].res.status \in {200, 500}
            /\ Answers(s) /\ reqs'[s].res.status = 200 => orders'[id].status = v

\* C12: no step rejects a requested status, whatever the current one.
C12_NoTransitionTable == [][C12_Step]_vars

\* an order that had been moved to delivered was moved back to pending
C12_Witness ==
    \E s \in StatusUpdates :
        /\ reqs[s].pc = "done"
        /\ reqs[s].res.status = 200
        /\ StageOf(reqs[s]).name = "updateOrderStatus"
        /\ reqs[s].db.loaded = "delivered"
        /\ reqs[s].body.status = "pending"
        /\ orders[reqs[s].params.id].status = "pending"

\* an order row without its updatedAt column
Untimed(order) == [f \in DOMAIN order \ {"updatedAt"} |-> order[f]]

\* C13: updateStatus(id, v) is idempotent.  After a first application the
\* stored order has status v (C11); a further application to the order in
\* that state is answered with success again (500 when a datastore call
\* fails) and leaves every order as it was: exactly so in the current version,
\* up to updatedAt in the earlier one.
C13_Step ==
    \A s \in StatusUpdates :
        LET id == reqs[s].params.id
            v  == reqs[s].body.status
        IN  (id \in DOMAIN orders /\ orders[id].status = v) =>
                /\ \A i \in DOMAIN orders : Untimed(orders'[i]) = Untimed(orders[i])
                /\ StageOf(reqs[s]).name = "updateOrderStatus" =>
                       \A i \in DOMAIN orders : orders'[i] = orders[i]
                /\ Answers(s) =>
                    /\ reqs'[s].res.status \in {200, 500}
                    /\ reqs'[s].res.status = 200 => SuccessWith(reqs'[s].res, id, v)

\* C13: every step treats a repeated status update as stated above.
C13_Idempotent == [][C13_Step]_vars

\* the second of two requests in a row that set order 1 to delivered has been
\* answered with success (the seeding script stores no delivered order, so a
\* first request made it delivered)
C13_Witness ==
    \E s \in StatusUpdates :
        /\ issued = 2
        /\ reqs[s].pc = "done"
        /\ reqs[s].res.status = 200
        /\ reqs[s].body.status = "delivered"
        /\ StageOf(reqs[s]).name = "updateOrderStatus"
        /\ reqs[s].db.loaded = "delivered"
        /\ orders[reqs[s].params.id].status = "delivered"

\* an order row without the columns a status update writes
Frame(order) == [f \in DOMAIN order \ {"status", "updatedAt"} |-> order[f]]

\* C16: no step removes an order or changes the line items, the totalAmount
\* or any column but status and updatedAt of a stored order; a step changes
\* the status or updatedAt of an order only if that order is the target of a
\* status update in service, and a step that changes a menu item (updateMenuItem,
\* deleteMenuItem) changes no order.
C16_Step ==
    /\ DOMAIN orders \subseteq DOMAIN orders'
    /\ \A i \in DOMAIN orders :
           /\ Frame(orders'[i]) = Frame(orders[i])
           /\ orders'[i] # orders[i] =>
                  \E s \in StatusUpdates :
                      reqs[s].params.id = i /\ reqs[s].pc \in {"h1", "h2"}
    /\ menu' # menu => orders' = orders

\* C16: every step keeps the orders and their frame as stated above.
C16_OrderFrame == [][C16_Step]_vars

\* order 1 was moved to confirmed and menu item 1 was given a new price; the
\* line item of order 1 keeps the price it was created with, and order 2 is
\* as it was seeded
C16_Witness ==
    /\ DOMAIN orders = {1, 2}
    /\ orders[1].status = "confirmed"
    /\ orders[2].status = "ready"
    /\ menu[1].price = 5990
    /\ orders[1].items[1].price = 3990
    /\ orders[1].totalAmount = 2 * 3990

----------------------------------------------------------------------------
(* Two status updates of one order in service at a time *)

\* PUT /orders/:id/status of the current router
CurrentStatusRoutes ==
    {r \in StatusRoutes :
        Routes[r].stages[Len(Routes[r].stages)].name = "updateOrderStatus"}

\* an authenticated admin sends a status update for order 1
RaceRequest(s) ==
    /\ reqs[s] = Idle
    /\ \E route \in CurrentStatusRoutes, v \in LifecycleStates :
           Arrive(s, route, AdminHeader, 1, [DefaultBody EXCEPT !.status = v])

\* one seeded order, and two requests can be in service at a time
InitRace ==
    /\ now = 0
    /\ limCfg = RouteLimits
    /\ requests = [i \in DOMAIN RouteLimits |-> EmptyMap]
    /\ passed = EmptyMap
    /\ denied = EmptyMap
    /\ last = NoCall
    /\ gate = EmptyMap
    /\ jwtSecret = TRUE
    /\ admins = [i \in {1} |-> StoredAdmin(1, "admin", TRUE)]
    /\ orders = [i \in {1} |-> SeedOrder(1, 1, SeedMenu[1], 1, "pending", 1, 0)]
    /\ menu = SeedMenu
    /\ reqs = [s \in {1, 2} |-> Idle]
    /\ issued = 0
    /\ checkout = NoCheckout
    /\ menuPage = NoPage

NextRace ==
    \/ \E s \in Slots : RaceRequest(s)
    \/ \E s \in Slots : Close(s)
    \/ \E s \in Slots : AuthDb(s)
    \/ \E s \in Slots : AuthResume(s)
    \/ \E s \in Slots : OrderStatusFind(s)
    \/ \E s \in Slots : OrderStatusSave(s)

SpecRace == InitRace /\ [][NextRace]_vars

\* C18: of two interleaved status updates of one stored order, each is
\* answered with success (500 when a datastore call fails), and a save that
\* resolves leaves the order with the status of its own request, so that the
\* final status is the one of whichever save ran last.
C18_Step ==
    \A s \in Slots :
        Answers(s) /\ reqs[s].params.id \in DOMAIN orders =>
            /\ reqs'[s].res.status \in {200, 500}
            /\ reqs[s].pc = "h2" /\ reqs'[s].res.status = 200 =>
                   orders'[reqs[s].params.id].status = reqs[s].body.status

\* C18: every step of two interleaved status updates is as stated above.
C18_LastWriteWins == [][C18_Step]_vars

----------------------------------------------------------------------------
(* getTopItems over stored orders *)

MaxItems == 52   \* distinct menu items in one order

\* the query strings of the requests
QueriesIn ==
    {[NoQuery EXCEPT !.limit = l, !.rankBy = r] :
        l \in {Absent, Param(<<>>), Param(<<"0">>), Param(<<"-", "1">>),
               Param(<<"a", "b", "c">>), Param(<<"2">>), Param(<<"5", "1">>),
               Param(<<" ", "3", "x">>)},
        r \in {Absent, Param(Text["revenue"])}}
        \cup {[NoQuery EXCEPT !.days = d, !.status = st, !.limit = Param(<<"5", "0">>)] :
                  d \in {Absent, Param(<<"0">>), Param(<<"3">>), Param(<<"x">>)},
                  st \in {Absent, Param(<<>>), Param(Text["all"]), Param(Text["pending"])}}

\* GET /stats/top-items
TopRoute == CHOOSE r \in DOMAIN Routes : Routes[r].path = "/stats/top-items"

\* an authenticated admin asks for the top items
TopRequest(s) ==
    /\ reqs[s] = Idle
    /\ \E q \in QueriesIn : Arrive(s, TopRoute, AdminHeader, 0, [DefaultBody EXCEPT !.query = q])

\* an Order row with the given line items
OrderOf(id, items, status, createdAt) ==
    [SeedOrder(id, 1, SeedMenu[1], 1, status, id, createdAt) EXCEPT
        !.items = items, !.totalAmount = SumItems(items)]

\* one line item of each of the menu items 1..n, cheaper items in larger quantity
OneOfEach(n) == [i \in 1..n |-> LineItem(i, 1000 * (1 + (i % 3)), 3 - (i % 3))]

\* three delivered orders of the last days with the line items (id 1, 2 at
\* 5.00), (id 1, 1 at 5.00) and (id 2, 5 at 1.00)
ExampleOrders ==
    <<OrderOf(1, <<LineItem(1, 5000, 2)>>, "delivered", 5 * DayMs),
      OrderOf(2, <<LineItem(1, 5000, 1)>>, "delivered", 6 * DayMs),
      OrderOf(3, <<LineItem(2, 1000, 5)>>, "delivered", 7 * DayMs)>>

\* the orders table: a delivered order of a day ago and a second order, or
\* the three orders of the example
InitTop ==
    /\ now = 8 * DayMs
    /\ limCfg = RouteLimits
    /\ requests = [i \in DOMAIN RouteLimits |-> EmptyMap]
    /\ passed = EmptyMap
    /\ denied = EmptyMap
    /\ last = NoCall
    /\ gate = EmptyMap
    /\ jwtSecret = TRUE
    /\ admins = [i \in {1} |-> StoredAdmin(1, "admin", TRUE)]
    /\ \/ \E n \in {1, 3, MaxItems}, status \in {"delivered", "pending"},
             createdAt \in {0, 4 * DayMs},
             items \in {<<LineItem(1, 3990, 2), LineItem(2, 4990, 1)>>,
                        <<LineItem(2, 4990, 2), LineItem(3, 1000, 4), LineItem(2, 4500, 1)>>} :
              orders = <<OrderOf(1, OneOfEach(n), "delivered", 7 * DayMs),
                         OrderOf(2, items, status, createdAt)>>
       \/ orders = ExampleOrders
    /\ menu = SeedMenu
    /\ reqs = [s \in {1} |-> Idle]
    /\ issued = 0
    /\ checkout = NoCheckout
    /\ menuPage = NoPage

NextTop ==
    \/ \E s \in Slots : TopRequest(s)
    \/ \E s \in Slots : Close(s)
    \/ \E s \in Slots : AuthDb(s)
    \/ \E s \in Slots : AuthResume(s)
    \/ \E s \in Slots : TopItemsQuery(s)

SpecTop == InitTop /\ [][NextTop]_vars

\* getTopItems has answered the request in slot s with success
TopAnswered(s) ==
    /\ reqs[s].pc = "done"
    /\ reqs[s].route = TopRoute
    /\ reqs[s].res.status = 200

\* seq[lo] + ... + seq[hi]
RECURSIVE SumRange(_, _, _)
SumRange(seq, lo, hi) ==
    IF lo > hi THEN 0
    ELSE IF lo = hi THEN seq[lo]
    ELSE LET mid == (lo + hi) \div 2 IN SumRange(seq, lo, mid) + SumRange(seq, mid + 1, hi)

SumSeq(seq) == SumRange(seq, 1, Len(seq))

\* the ids of the orders the query of slot s filters in
FilteredOrders(s) ==
    LET q == reqs[s].body.query IN
    {i \in DOMAIN orders :
        Selected(orders[i], Default(q.days, "7"),
                 IF q.status.given THEN q.status.chars ELSE Text["delivered"], now)}

\* the sum of f(line item) over the line items with the given ids of the
\* filtered orders
TotalOf(s, ids, f(_)) ==
    SumSeq([i \in 1..Len(orders) |->
        IF i \in FilteredOrders(s)
        THEN SumSeq([j \in 1..Len(orders[i].items) |->
                 IF orders[i].items[j].id \in ids THEN f(orders[i].items[j]) ELSE 0])
        ELSE 0])

ItemIds(s) ==
    UNION {{orders[i].items[j].id : j \in 1..Len(orders[i].items)} : i \in FilteredOrders(s)}

\* C19: each entry getTopItems returns is for an item id that occurs in the
\* line items of the filtered orders, no id has two entries, and the entry's
\* totalQuantity and totalRevenue are the sums of quantity and of quantity x
\* price over the line items with that id; the entries are in non-increasing
\* order of totalRevenue when rankBy is revenue and of totalQuantity otherwise;
\* when nothing is truncated, every such id has its entry and the
\* totalQuantity values add up to the quantity of all those line items.
C19_TopItems ==
    \A s \in Slots :
        TopAnswered(s) =>
            LET top == reqs[s].res.body.data.array
                rev == reqs[s].body.query.rankBy = Param(Text["revenue"])
                key(e) == IF rev THEN e.totalRevenue ELSE e.totalQuantity
                qty(it) == it.quantity
                amount(it) == it.quantity * it.price
            IN  /\ \A k \in 1..Len(top) :
                       /\ top[k].id \in ItemIds(s)
                       /\ top[k].totalQuantity = TotalOf(s, {top[k].id}, qty)
                       /\ top[k].totalRevenue = TotalOf(s, {top[k].id}, amount)
                       /\ \A l \in 1..Len(top) : top[l].id = top[k].id => l = k
                /\ \A k \in 1..(Len(top) - 1) : key(top[k]) >= key(top[k + 1])
                /\ Len(top) = Cardinality(ItemIds(s)) =>
                       /\ {top[k].id : k \in 1..Len(top)} = ItemIds(s)
                       /\ SumSeq([k \in 1..Len(top) |-> top[k].totalQuantity])
                              = TotalOf(s, ItemIds(s), qty)

\* ranked by revenue and not truncated: item 2, with line items at two prices
\* in one order and a third in another, comes before item 3, of which more
\* were ordered
C19_Witness ==
    /\ TopAnswered(1)
    /\ reqs[1].body.query.rankBy = Param(Text["revenue"])
    /\ FilteredOrders(1) = {1, 2}
    /\ LET top == reqs[1].res.body.data.array IN
       /\ Len(top) = 3
       /\ Cardinality(ItemIds(1)) = 3
       /\ top[1].id = 2 /\ top[1].totalQuantity = 4 /\ top[1].totalRevenue = 2 * 4990 + 4500 + 3000
       /\ top[2].id = 3 /\ top[2].totalQuantity = 7

\* C20: the list getTopItems returns never has more than 50 entries, whatever
\* the limit parameter and however many distinct items the orders have.
C20_AtMost50 ==
    \A s \in Slots : TopAnswered(s) => Len(reqs[s].res.body.data.array) <= 50

----------------------------------------------------------------------------
(* getOrdersWithFilters over stored orders *)

\* req.query of getOrdersWithFilters; limit and offset are given by their
\* characters, the strings that are only compared or passed on are given
\* whole; dateFrom, dateTo and search are absent
NoFilters ==
    [status |-> Absent, orderType |-> Absent, sortBy |-> Absent, order |-> Absent,
     limit |-> Absent, offset |-> Absent]

\* whereClause: status and orderType, each unless empty or 'all'
WhereClause(row, q) ==
    /\ (q.status.given /\ q.status.chars \notin {"", "all"}) => row.status = q.status.chars
    /\ (q.orderType.given /\ q.orderType.chars \notin {"", "all"}) =>
           row.orderType = q.orderType.chars

\* String.prototype.toUpperCase, of the directions of a sort
ToUpperCase(str) == IF str \in {"asc", "ASC"} THEN "ASC" ELSE "DESC"

\* parseInt(limit) and parseInt(offset); limit = 50 and offset = 0 when absent
LimitOf(q) == IF q.limit.given THEN ParseInt(q.limit.chars).value ELSE 50
OffsetOf(q) == IF q.offset.given THEN ParseInt(q.offset.chars).value ELSE 0

\* the ids of the rows that match
Matching(rows, q) == {i \in DOMAIN rows : WhereClause(rows[i], q)}

\* the orders the datastore may put rows of equal sort key in: any
Tiebreaks(rows, q) ==
    LET ids    == Matching(rows, q)
        sortBy == IF q.sortBy.given THEN q.sortBy.chars ELSE "createdAt"
    IN  IF \A i, j \in ids : rows[i][sortBy] = rows[j][sortBy] => i = j
        THEN {[i \in ids |-> i]}
        ELSE Permutations(ids)

\* ORDER BY sortBy order: the ids of the matching rows in that order, rows of
\* equal key in the order of tiebreak
OrderBy(rows, q, tiebreak) ==
    LET ids    == Matching(rows, q)
        sortBy == IF q.sortBy.given THEN q.sortBy.chars ELSE "createdAt"
        desc   == ToUpperCase(IF q.order.given THEN q.order.chars ELSE "DESC") = "DESC"
        before(i, j) ==
            IF rows[i][sortBy] # rows[j][sortBy]
            THEN (IF desc THEN rows[i][sortBy] > rows[j][sortBy]
                  ELSE rows[i][sortBy] < rows[j][sortBy])
            ELSE tiebreak[i] < tiebreak[j]
    IN  [p \in 1..Cardinality(ids) |->
            CHOOSE i \in ids : Cardinality({j \in ids : before(j, i)}) = p - 1]

\* LIMIT limit OFFSET offset
LimitOffset(seq, limit, offset) ==
    SubSeq(seq, offset + 1, IF offset + limit < Len(seq) THEN offset + limit ELSE Len(seq))

\* { ...order.toJSON(), itemCount } (timeAgo is left out)
WithItemCount(row) ==
    [f \in DOMAIN row \cup {"itemCount"} |->
        IF f = "itemCount" THEN Len(row.items) ELSE row[f]]

\* hasMore: (parseInt(offset) + parseInt(limit)) < total
HasMore_m(offset, limit, total) == offset + limit <= total
HasMore(offset, limit, total) == offset + limit < total

\* the handler is called with a query and runs up to its first await
OrdersCall(s, queries) ==
    /\ reqs[s] = Idle
    /\ issued < MaxReqs
    /\ \E q \in queries :
           reqs' = [reqs EXCEPT ![s] =
                       [pc |-> "h1", handler |-> "getOrdersWithFilters", query |-> q,
                        res |-> NoRes, db |-> NoDb]]
    /\ issued' = issued + 1
    /\ UNCHANGED <<limiterHistory, menuPage, checkout, requests, admins, orders, menu>>

\* Order.findAll({ where, order, limit, offset }) resolves
OrdersFindAll(s) ==
    /\ reqs[s].pc = "h1"
    /\ reqs[s].handler = "getOrdersWithFilters"
    /\ LET q == reqs[s].query IN
       \E ok \in BOOLEAN, tiebreak \in Tiebreaks(orders, q) :
           reqs' = [reqs EXCEPT ![s] =
               IF ~ok THEN Done(@, Error("Failed to get orders", 500))
               ELSE [@ EXCEPT !.pc = "h2",
                              !.db = [ok |-> TRUE, found |-> TRUE,
                                      row |-> LimitOffset(OrderBy(orders, q, tiebreak),
                                                          LimitOf(q), OffsetOf(q))]]]
    /\ UNCHANGED <<limiterHistory, menuPage, checkout, requests, admins, orders, menu, issued>>

\* Order.count({ where }) resolves and the handler answers
OrdersCount(s) ==
    /\ reqs[s].pc = "h2"
    /\ reqs[s].handler = "getOrdersWithFilters"
    /\ LET q     == reqs[s].query
           page  == reqs[s].db.row
           total == Cardinality(Matching(orders, q))
       IN
       \E ok \in BOOLEAN :
           reqs' = [reqs EXCEPT ![s] =
               IF ~ok THEN Done(@, Error("Failed to get orders", 500))
               ELSE Done(@, Success(
                        [orders |-> Arr([k \in 1..Len(page) |-> WithItemCount(orders[page[k]])]),
                         pagination |->
                             [total |-> total, limit |-> LimitOf(q), offset |-> OffsetOf(q),
                              hasMore |-> HasMore(OffsetOf(q), LimitOf(q), total)]],
                        Str("Orders retrieved successfully"), 200))]
    /\ UNCHANGED <<limiterHistory, menuPage, checkout, requests, admins, orders, menu, issued>>

\* the orders table: n orders, every fifth pending, with n distinct amounts,
\* created one after the other or all in the same millisecond
PagedOrders(n, together) ==
    [i \in 1..n |->
        OrderOf(i, <<LineItem(1, 1000, i)>>, IF i % 5 = 0 THEN "pending" ELSE "delivered",
                IF together THEN 0 ELSE i)]

\* the queries of the calls
FiltersIn ==
    {[NoFilters EXCEPT !.limit = l, !.offset = o, !.status = st] :
        l \in {Param(<<"1", "0">>), Param(<<"2">>)},
        o \in {Absent, Param(<<"2">>), Param(<<"1", "0">>), Param(<<"2", "0">>),
               Param(<<"3", "0">>)},
        st \in {Absent, Param("delivered")}}
        \cup {[NoFilters EXCEPT !.sortBy = Param("totalAmount"), !.order = Param("asc")],
               [NoFilters EXCEPT !.orderType = Param("delivery")]}

\* 25 orders, or 3 made in the same millisecond, or none; two calls can be
\* in service at a time
InitPage ==
    /\ now = 0
    /\ limCfg = RouteLimits
    /\ requests = [i \in DOMAIN RouteLimits |-> EmptyMap]
    /\ passed = EmptyMap
    /\ denied = EmptyMap
    /\ last = NoCall
    /\ gate = EmptyMap
    /\ jwtSecret = TRUE
    /\ admins = [i \in {1} |-> StoredAdmin(1, "admin", TRUE)]
    /\ orders \in {PagedOrders(25, FALSE), PagedOrders(3, TRUE), PagedOrders(0, FALSE)}
    /\ menu = SeedMenu
    /\ reqs = [s \in {1, 2} |-> Idle]
    /\ issued = 0
    /\ checkout = NoCheckout
    /\ menuPage = NoPage

NextPage ==
    \/ \E s \in Slots : OrdersCall(s, FiltersIn)
    \/ \E s \in Slots : OrdersFindAll(s)
    \/ \E s \in Slots : OrdersCount(s)
    \/ \E s \in Slots : Close(s)

SpecPage == InitPage /\ [][NextPage]_vars

\* getOrdersWithFilters has answered the call in slot s with success
PageAnswered(s) ==
    /\ reqs[s].pc = "done"
    /\ "handler" \in DOMAIN reqs[s]
    /\ reqs[s].res.status = 200

\* the ids on the page of slot s
PageIds(s) ==
    LET page == reqs[s].res.body.data.orders.array IN {page[k].id : k \in 1..Len(page)}

\* the page of slot s has min(L, max(0, N - O)) orders, all of them matching
\* and none twice, and hasMore is O + L < N
PageSize(s) ==
    LET q    == reqs[s].query
        N    == Cardinality(Matching(orders, q))
        L    == LimitOf(q)
        O    == OffsetOf(q)
        rest == IF N - O > 0 THEN N - O ELSE 0
        data == reqs[s].res.body.data
    IN  /\ Len(data.orders.array) = IF L < rest THEN L ELSE rest
        /\ Cardinality(PageIds(s)) = Len(data.orders.array)
        /\ PageIds(s) \subseteq Matching(orders, q)
        /\ data.pagination.hasMore = (O + L < N)
        /\ data.pagination.total = N

\* two pages of one paging run: the same query but for the offsets, which
\* are different multiples of the limit
SameRun(s, t) ==
    /\ PageAnswered(s) /\ PageAnswered(t)
    /\ [reqs[s].query EXCEPT !.offset = Absent] = [reqs[t].query EXCEPT !.offset = Absent]
    /\ OffsetOf(reqs[s].query) # OffsetOf(reqs[t].query)
    /\ OffsetOf(reqs[s].query) % LimitOf(reqs[s].query) = 0
    /\ OffsetOf(reqs[t].query) % LimitOf(reqs[t].query) = 0

\* C22 as stated: a page has min(L, max(0, N - O)) orders and hasMore is
\* O + L < N, and paging by offset += limit visits every matching order
\* exactly once: no order is on two pages of one run.
C22_Original ==
    \A s, t \in Slots :
        /\ PageAnswered(s) => PageSize(s)
        /\ SameRun(s, t) => PageIds(s) \cap PageIds(t) = {}

\* the sort keys of the orders matching the query of slot s are distinct
DistinctKeys(s) == Cardinality(Tiebreaks(orders, reqs[s].query)) = 1

\* C22 amended: a page has min(L, max(0, N - O)) orders and hasMore is
\* O + L < N; when no two matching orders have the same sort key, the page at
\* offset O is the orders at positions O + 1 .. O + L of the sorted list, so
\* that paging by offset += limit visits every matching order exactly once.
C22_Pagination ==
    \A s, t \in Slots :
        /\ PageAnswered(s) => PageSize(s)
        /\ PageAnswered(s) /\ DistinctKeys(s) =>
               LET q      == reqs[s].query
                   page   == reqs[s].res.body.data.orders.array
                   sortBy == IF q.sortBy.given THEN q.sortBy.chars ELSE "createdAt"
                   up     == q.order.given /\ q.order.chars \in {"asc", "ASC"}
                   \* the matching orders that come before order i
                   ahead(i) == {j \in Matching(orders, q) :
                                   IF up THEN orders[j][sortBy] < orders[i][sortBy]
                                   ELSE orders[j][sortBy] > orders[i][sortBy]}
               IN  \A k \in 1..Len(page) :
                       Cardinality(ahead(page[k].id)) = OffsetOf(q) + k - 1
        /\ SameRun(s, t) /\ DistinctKeys(s) => PageIds(s) \cap PageIds(t) = {}

\* of 25 orders, the page of limit 10 at offset 0 has 10 with hasMore true,
\* and the page at offset 20 has 5 with hasMore false
C22_Witness ==
    /\ Len(orders) = 25
    /\ SameRun(1, 2)
    /\ ~reqs[1].query.status.given
    /\ LimitOf(reqs[1].query) = 10
    /\ OffsetOf(reqs[1].query) = 0 /\ OffsetOf(reqs[2].query) = 20
    /\ Len(reqs[1].res.body.data.orders.array) = 10
    /\ reqs[1].res.body.data.pagination.hasMore
    /\ Len(reqs[2].res.body.data.orders.array) = 5
    /\ ~reqs[2].res.body.data.pagination.hasMore

----------------------------------------------------------------------------
(* The dashboard summary over stored orders *)

\* GET /dashboard/stats
StatsRoute == CHOOSE r \in DOMAIN Routes : Routes[r].path = "/dashboard/stats"

\* the days parameter: absent, a week, a day, none
StatsQueries ==
    {[NoQuery EXCEPT !.days = d] :
        d \in {Absent, Param(<<"7">>), Param(<<"1">>), Param(<<"0">>)}}

\* an authenticated admin asks for the dashboard statistics
StatsRequest(s) ==
    /\ reqs[s] = Idle
    /\ \E q \in StatsQueries : Arrive(s, StatsRoute, AdminHeader, 0, [DefaultBody EXCEPT !.query = q])

\* the orders table: three orders of 10.00, 4.00 and 5.00, the first of them
\* of a few hours ago, in any of three statuses
InitStats ==
    /\ now = 8 * DayMs
    /\ limCfg = RouteLimits
    /\ requests = [i \in DOMAIN RouteLimits |-> EmptyMap]
    /\ passed = EmptyMap
    /\ denied = EmptyMap
    /\ last = NoCall
    /\ gate = EmptyMap
    /\ jwtSecret = TRUE
    /\ admins = [i \in {1} |-> StoredAdmin(1, "admin", TRUE)]
    /\ \E st \in [1..3 -> {"delivered", "pending", "cancelled"}],
          c2 \in {0, 7 * DayMs + 1}, c3 \in {2 * DayMs, 8 * DayMs} :
           orders = <<OrderOf(1, <<LineItem(1, 5000, 2)>>, st[1], 8 * DayMs - 3600000),
                      OrderOf(2, <<LineItem(2, 4000, 1)>>, st[2], c2),
                      OrderOf(3, <<LineItem(1, 5000, 1)>>, st[3], c3)>>
    /\ menu = SeedMenu
    /\ reqs = [s \in {1} |-> Idle]
    /\ issued = 0
    /\ checkout = NoCheckout
    /\ menuPage = NoPage

NextStats ==
    \/ \E s \in Slots : StatsRequest(s)
    \/ \E s \in Slots : Close(s)
    \/ \E s \in Slots : AuthDb(s)
    \/ \E s \in Slots : AuthResume(s)
    \/ \E s \in Slots : DashboardStats(s)

SpecStats == InitStats /\ [][NextStats]_vars

\* getDashboardStats has answered the request in slot s with success
StatsAnswered(s) ==
    /\ reqs[s].pc = "done"
    /\ reqs[s].route = StatsRoute
    /\ reqs[s].res.status = 200

\* Date.now() - days * 24 * 60 * 60 * 1000, the days subtracted in two parts
WindowStart(t, days) == (t - (days \div 2) * DayMs) - (days - (days \div 2)) * DayMs

\* the two quotients are the same number
SameRatio(a, b) == a.num * b.den = b.num * a.den

\* the orders of the window of the request in slot s that are not cancelled
NotCancelled(s) ==
    {i \in DateFilter(orders, reqs[s].body.query, now) : orders[i].status # "cancelled"}

\* C23: in the dashboard summary, totalRevenue is the sum of totalAmount over
\* the orders of the window that are not cancelled, and averageOrderValue is
\* that revenue divided by the number of those orders (0 when there are none),
\* the value AdminHelpers.calculateRevenue reports for the same window.
C23_Summary ==
    \A s \in Slots :
        StatsAnswered(s) =>
            LET overview == reqs[s].res.body.data.overview
                revenue == SumAmount(orders, NotCancelled(s))
                range == [start |-> WindowStart(now, DaysOf(reqs[s].body.query).value),
                          end |-> now + 1]
            IN  /\ overview.totalRevenue = revenue
                /\ SameRatio(overview.averageOrderValue,
                             IF NotCancelled(s) = {} THEN Ratio(0, 1)
                             ELSE Ratio(revenue, Cardinality(NotCancelled(s))))
                /\ SameRatio(overview.averageOrderValue,
                             calculateRevenue(orders, range).averageOrderValue)

\* the revenue part alone: cancelled orders add nothing to totalRevenue
RevenueExcludesCancelled ==
    \A s \in Slots :
        StatsAnswered(s) =>
            reqs[s].res.body.data.overview.totalRevenue = SumAmount(orders, NotCancelled(s))

\* a summary over a window that holds a cancelled order and a delivered one
CancelledInWindow ==
    \E s \in Slots :
        /\ StatsAnswered(s)
        /\ \E i, j \in DateFilter(orders, reqs[s].body.query, now) :
               orders[i].status = "cancelled" /\ orders[j].status = "delivered"

----------------------------------------------------------------------------
(* Registrations in flight at the same time *)

\* POST /register
RegisterRoute == CHOOSE r \in DOMAIN Routes : Routes[r].path = "/register"

\* a registration arrives
RegisterRequest(s) ==
    /\ reqs[s] = Idle
    /\ \E body \in RegisterBodies : Arrive(s, RegisterRoute, NoHeader, 0, body)

\* the stored admins, and two requests can be in service at a time
InitRegister ==
    /\ now = 0
    /\ limCfg = RouteLimits
    /\ requests = [i \in DOMAIN RouteLimits |-> EmptyMap]
    /\ passed = EmptyMap
    /\ denied = EmptyMap
    /\ last = NoCall
    /\ gate = EmptyMap
    /\ jwtSecret \in BOOLEAN
    /\ admins = [i \in 1..NumStoredAdmins |-> StoredAdmin(i, "admin", TRUE)]
    /\ orders = <<>>
    /\ menu = SeedMenu
    /\ reqs = [s \in {1, 2} |-> Idle]
    /\ issued = 0
    /\ checkout = NoCheckout
    /\ menuPage = NoPage

NextRegister ==
    \/ \E s \in Slots : RegisterRequest(s)
    \/ \E s \in Slots : RegisterFindOne(s)
    \/ \E s \in Slots : RegisterCreate(s)
    \/ \E s \in Slots : Close(s)

SpecRegister == InitRegister /\ [][NextRegister]_vars

\* no two stored admins share an email or a username
UniqueAdmins ==
    \A i, j \in DOMAIN admins :
        i # j => admins[i].email # admins[j].email /\ admins[i].username # admins[j].username

\* registerAdmin answers the request of slot s in this step
RegisterAnswers(s) ==
    /\ reqs[s].pc \in {"h1", "h2"}
    /\ Routes[reqs[s].route].path = "/register"
    /\ reqs'[s].pc = "done"

\* a registration whose email or username belongs to a stored admin is
\* answered 409 (500 when the lookup itself failed) and creates no admin
DuplicateStep ==
    \A s \in Slots :
        (RegisterAnswers(s) /\ ExistingAdmins(reqs[s].body.email, reqs[s].body.username) # {}) =>
            /\ admins' = admins
            /\ \/ reqs'[s].res.status = 409
               \/ reqs[s].pc = "h1" /\ reqs'[s].res.status = 500

\* C24: after any interleaving of registerAdmin requests no two stored admins
\* share an email or a username, and a registration whose email or username
\* already belongs to a stored admin is answered 409 Conflict and creates no
\* admin, also when two such registrations are in flight at the same time.
C24_UniqueAnd409 == []UniqueAdmins /\ [][DuplicateStep]_vars

\* the stored admins stay unique
C24_StoredUnique == []UniqueAdmins

\* two registrations with the same email are past the lookup at the same time
BothPastLookup ==
    /\ reqs[1].pc = "h2" /\ reqs[2].pc = "h2"
    /\ reqs[1].body.email = reqs[2].body.email

----------------------------------------------------------------------------
(* The boundary of the limiter's window (checked under SpecRL) *)

\* what the call of the step leaves stored for admin a when the timestamps
\* for which keep holds are the ones kept
StoredAfter(a, keep(_)) ==
    LET kept == SelectSeq(Stored(requests["rl"], a), keep) IN
    requests'["rl"][a] = IF last'.status = "429" THEN kept ELSE Append(kept, now)

\* the step is a call by admin a at exactly windowMs after the one request
\* that is recorded for a, the limit being 1
AtBoundary(a) ==
    /\ IsCallBy(a)
    /\ RLCfg.maxRequests = 1
    /\ Stored(requests["rl"], a) = <<now - RLCfg.windowMs>>

\* C25 as stated: a call discards exactly the timestamps older than
\* now - windowMs; a timestamp equal to now - windowMs is kept and counts
\* (maxRequests = 1: a request at T, then one at exactly T + windowMs, is
\* answered 429).
C25_OriginalStep ==
    \A a \in AdminIds :
        /\ IsCallBy(a) => StoredAfter(a, LAMBDA time : time >= now - RLCfg.windowMs)
        /\ AtBoundary(a) => last'.status = "429"

C25_Original == [][C25_OriginalStep]_vars

\* C25 amended: a call discards exactly the timestamps that are not newer
\* than now - windowMs; a timestamp equal to now - windowMs is discarded and
\* does not count (maxRequests = 1: a request at T, then one at exactly
\* T + windowMs, is let through).
C25_Step ==
    \A a \in AdminIds :
        /\ IsCallBy(a) => StoredAfter(a, LAMBDA time : time > now - RLCfg.windowMs)
        /\ AtBoundary(a) => last'.status = "next" /\ requests'["rl"][a] = <<now>>

C25_DiscardsBoundary == [][C25_Step]_vars

\* with the limit 1, an admin was let through at T and again at exactly
\* T + windowMs
C25_Witness ==
    /\ RLCfg.maxRequests = 1
    /\ last.status = "next"
    /\ last.adminId \in AdminIds
    /\ LET hist == passed["rl"][last.adminId] IN
       /\ Len(hist) = 2
       /\ hist[2] = now
       /\ hist[2] - hist[1] = RLCfg.windowMs
    /\ requests["rl"][last.adminId] = <<now>>

----------------------------------------------------------------------------
(* Requests of the same admin in flight at the same time, at the limiter *)

\* POST /upload-image
UploadRoute == CHOOSE r \in DOMAIN Routes : Routes[r].path = "/upload-image"

\* PUT /orders/:id/status of the current router
StatusRoute == CHOOSE r \in CurrentStatusRoutes : TRUE

\* an admin sends a status update or an image
BurstRequest(s) ==
    /\ reqs[s] = Idle
    /\ \E a \in DOMAIN admins :
       LET header == [present |-> TRUE, bearer |-> TRUE, token |-> JwtSign(a)] IN
       \/ Arrive(s, StatusRoute, header, 1, [DefaultBody EXCEPT !.status = "confirmed"])
       \/ Arrive(s, UploadRoute, header, 0, [DefaultBody EXCEPT !.file = "image"])

MaxElapse == 1   \* milliseconds that pass while the requests are served

\* Date.now() advances by a millisecond
Elapse ==
    /\ now < 15 * 60 * 1000 + MaxElapse
    /\ now' = now + 1
    /\ UNCHANGED <<limCfg, requests, passed, last, denied, appVars>>

\* n timestamps, the first of them at time 1 and the others at time t
Recorded(n, t) == [k \in 1..n |-> IF k = 1 THEN 1 ELSE t]

\* fifteen minutes after the start: admin 1 is at the limit of the status
\* route, or one or two requests short of it, and one request short of the
\* limit of the upload route; admin 2 has made no request; two requests can be
\* in service at a time
InitBurst ==
    /\ now = 15 * 60 * 1000
    /\ limCfg = RouteLimits
    /\ \E short \in {0, 1, 2} :
           requests = [i \in DOMAIN RouteLimits |->
                          CASE i = "orders:status" ->
                                   [a \in {1} |-> Recorded(RouteLimits[i].maxRequests - short, now)]
                            [] i = "upload-image" ->
                                   [a \in {1} |-> Recorded(RouteLimits[i].maxRequests - 1, now)]
                            [] OTHER -> EmptyMap]
    /\ passed = EmptyMap
    /\ denied = EmptyMap
    /\ last = NoCall
    /\ gate = EmptyMap
    /\ jwtSecret = TRUE
    /\ admins = [i \in {1, 2} |-> StoredAdmin(i, "admin", TRUE)]
    /\ orders = [i \in {1} |-> SeedOrder(1, 1, SeedMenu[1], 1, "pending", 1, 0)]
    /\ menu = SeedMenu
    /\ reqs = [s \in {1, 2} |-> Idle]
    /\ issued = 0
    /\ checkout = NoCheckout
    /\ menuPage = NoPage

NextBurst ==
    \/ \E s \in Slots : BurstRequest(s)
    \/ \E s \in Slots : Close(s)
    \/ \E s \in Slots : AuthDb(s)
    \/ \E s \in Slots : AuthResume(s)
    \/ \E s \in Slots : UploadDone(s)
    \/ \E s \in Slots : OrderStatusFind(s)
    \/ \E s \in Slots : OrderStatusSave(s)
    \/ Elapse

SpecBurst == InitBurst /\ [][NextBurst]_vars

\* the requests in service
InFlight == {s \in Slots : reqs[s].pc # "idle"}

\* the timestamps recorded for admin a by the limiter inst that lie in the
\* window that ends now
Counted(inst, a) ==
    {k \in DOMAIN Stored(requests[inst], a) :
        Stored(requests[inst], a)[k] > now - limCfg[inst].windowMs}

\* the limiter has let the request of slot s through
PassedLimiter(s) ==
    /\ s \in InFlight
    /\ Len(reqs[s].trail) > 0
    /\ reqs[s].trail[Len(reqs[s].trail)] \in {"upload", "handler"}

\* the step runs the limiter of its route for the request in slot s
RunsLimiter(s) ==
    /\ reqs[s].pc = "auth_ret"
    /\ \E k \in DOMAIN reqs'[s].trail : reqs'[s].trail[k] = "limit"

\* C26: the limiter runs from its filter to its append without suspending (no
\* request in service rests inside it), and with several requests of the same
\* admin in service at the same time the requests let through in a window
\* never exceed maxRequests: a request passes only when fewer than maxRequests
\* are counted, and its own timestamp is counted from then on.
C26_Bound ==
    /\ \A s \in InFlight : reqs[s].pc # "run" /\ (reqs[s].pc # "done" => StageOf(reqs[s]).kind # "limit")
    /\ \A inst \in DOMAIN requests : \A a \in DOMAIN admins :
           Cardinality(Counted(inst, a)) <= limCfg[inst].maxRequests

C26_Step ==
    \A s \in Slots :
        RunsLimiter(s) =>
            LET inst == Routes[reqs[s].route].stages[2].inst
                a == reqs'[s].admin.id
            IN  IF Cardinality(Counted(inst, a)) < limCfg[inst].maxRequests
                THEN /\ reqs'[s].res = NoRes
                     /\ Cardinality({k \in DOMAIN requests'[inst][a] : requests'[inst][a][k] > now - limCfg[inst].windowMs})
                            = Cardinality(Counted(inst, a)) + 1
                ELSE reqs'[s].res.status = 429

C26_Serialized == []C26_Bound /\ [][C26_Step]_vars

\* two requests of admin 1 on the same route were in service together when
\* one was short of the limit: one was let through, the other answered 429
C26_Witness ==
    /\ reqs[1].pc # "idle" /\ reqs[2].pc # "idle"
    /\ reqs[1].route = reqs[2].route
    /\ reqs[1].admin.id = 1 /\ reqs[2].admin.id = 1
    /\ PassedLimiter(1) /\ reqs[1].pc \in {"upload", "h1", "h2"}
    /\ reqs[2].pc = "done" /\ reqs[2].res.status = 429
    /\ LET inst == Routes[reqs[1].route].stages[2].inst IN
       Cardinality(Counted(inst, 1)) = limCfg[inst].maxRequests

\* the adminRateLimit(...) call of the route with the given path
LimiterOf(path) ==
    CASE path = "/upload-image" -> "upload-image"
      [] path = "/orders/:id/status" -> "orders:status"

\* C27: the counters are isolated per identity and per route: a request that
\* runs the limiter of its route as admin a changes the timestamps of admin a
\* in the Map of that route's limiter and nothing else, it is answered 429
\* exactly when maxRequests of admin a's own timestamps in that Map are
\* counted, and no other step changes a Map.
C27_Step ==
    /\ \A s \in Slots :
           RunsLimiter(s) =>
               LET inst == LimiterOf(Routes[reqs[s].route].path)
                   a == reqs'[s].admin.id
               IN  /\ \A j \in DOMAIN requests \ {inst} : requests'[j] = requests[j]
                   /\ \A b \in DOMAIN admins \ {a} :
                          Stored(requests'[inst], b) = Stored(requests[inst], b)
                   /\ reqs'[s].res.status = 429
                          <=> Cardinality(Counted(inst, a)) >= limCfg[inst].maxRequests
    /\ (\A s \in Slots : ~RunsLimiter(s)) => requests' = requests

C27_Isolated == [][C27_Step]_vars

\* admin 1 is answered 429 on the status route while the request of admin 2
\* on the same route is let through, and admin 1 is still short of the limit
\* of the upload route
C27_Witness ==
    /\ reqs[1].pc = "done" /\ reqs[1].res.status = 429
    /\ reqs[1].route = StatusRoute /\ reqs[1].admin.id = 1
    /\ PassedLimiter(2)
    /\ reqs[2].route = StatusRoute /\ reqs[2].admin.id = 2
    /\ Cardinality(Counted("orders:status", 2)) = 1
    /\ Cardinality(Counted("upload-image", 1)) < limCfg["upload-image"].maxRequests

\* C28: registerAdmin changes the stored admins only when it answers 201: a
\* registration answered 400, 409 or 500 (the unset signing secret included)
\* leaves the stored admins as they were.
C28_Step ==
    \A s \in Slots :
        (/\ reqs[s].pc # "done"
         /\ reqs'[s].pc = "done"
         /\ reqs'[s].route = RegisterRoute
         /\ reqs'[s].res.status # 201) => admins' = admins

C28_StoreOnlyOn201 == [][C28_Step]_vars

----------------------------------------------------------------------------
(* The cart of the menu page (Index) *)

MaxAdds == 3   \* calls of handleItemSelect in one run

\* cartItems.find((cartItem) => cartItem.id === item.id)
InCart(cartItems, id) == \E k \in DOMAIN cartItems : cartItems[k].id = id

\* what handleItemSelect passes to setCartItems: the line of the item with
\* one unit more, or a new line of one unit behind the others
WithItem(cartItems, item) ==
    IF InCart(cartItems, item.id)
    THEN [k \in DOMAIN cartItems |->
             IF cartItems[k].id = item.id THEN [cartItems[k] EXCEPT !.quantity = @ + 1]
             ELSE cartItems[k]]
    ELSE Append(cartItems, CartItem(item, 1))

\* handleItemSelect up to its await: the function of the current render is
\* called, which closes over the cartItems of that render
ItemSelect(s) ==
    /\ reqs[s] = Idle
    /\ issued < MaxAdds
    /\ \E i \in DOMAIN menu :
           /\ reqs' = [reqs EXCEPT ![s] = [pc |-> "delay", handler |-> "handleItemSelect",
                                           item |-> menu[i], cartItems |-> menuPage.cartItems]]
           /\ menuPage' = [menuPage EXCEPT !.isAddingToCart = menu[i].id]
    /\ issued' = issued + 1
    /\ UNCHANGED <<limiterHistory, checkout, requests, admins, orders, menu>>

\* handleItemSelect after the 600 ms: setCartItems and setIsAddingToCart(null)
ItemSelectResume(s) ==
    /\ reqs[s] # Idle
    /\ reqs[s].pc = "delay"
    /\ menuPage' = [cartItems |-> WithItem(reqs[s].cartItems, reqs[s].item),
                    isAddingToCart |-> NoId]
    /\ reqs' = [reqs EXCEPT ![s] = Idle]
    /\ UNCHANGED <<limiterHistory, checkout, requests, admins, orders, menu, issued>>

\* the page is mounted with an empty cart; the menu has two items, and calls
\* of handleItemSelect can overlap
InitCart ==
    /\ now = 0
    /\ limCfg = RouteLimits
    /\ requests = [i \in DOMAIN RouteLimits |-> EmptyMap]
    /\ passed = EmptyMap
    /\ denied = EmptyMap
    /\ last = NoCall
    /\ gate = EmptyMap
    /\ jwtSecret = TRUE
    /\ admins = EmptyMap
    /\ orders = EmptyMap
    /\ menu = SeedMenu
    /\ reqs = [s \in 1..MaxAdds |-> Idle]
    /\ issued = 0
    /\ checkout = NoCheckout
    /\ menuPage = NoPage

NextCart ==
    \/ \E s \in Slots : ItemSelect(s)
    \/ \E s \in Slots : ItemSelectResume(s)

SpecCart == InitCart /\ [][NextCart]_vars

\* the sum of the quantities of the cart lines
RECURSIVE SumQuantity(_)
SumQuantity(cartItems) ==
    IF cartItems = <<>> THEN 0 ELSE Head(cartItems).quantity + SumQuantity(Tail(cartItems))

\* the calls of handleItemSelect that have completed
AddsCompleted == issued - Cardinality({s \in Slots : reqs[s] # Idle})

\* each item id is in at most one cart line
OneLinePerItem ==
    \A j, k \in DOMAIN menuPage.cartItems :
        menuPage.cartItems[j].id = menuPage.cartItems[k].id => j = k

\* C30: every handleItemSelect adds exactly one unit: after n calls have
\* completed, overlapping or not, and no removal, the quantities of the cart
\* sum to n, and each item id is in at most one cart line.
C30_OneUnitPerAdd ==
    /\ SumQuantity(menuPage.cartItems) = AddsCompleted
    /\ OneLinePerItem

\* the adds that do not overlap each add one unit
SequentialAdds == [][\A s \in Slots :
                        (reqs[s] # Idle /\ reqs'[s] = Idle /\ reqs[s].cartItems = menuPage.cartItems)
                            => SumQuantity(menuPage'.cartItems) = SumQuantity(menuPage.cartItems) + 1]_vars

\* getTopItems has answered, ranking by quantity, over the three orders of
\* the example, all of them filtered in, with room for both items
ExampleAnswered(s) ==
    /\ TopAnswered(s)
    /\ orders = ExampleOrders
    /\ FilteredOrders(s) = {1, 2, 3}
    /\ reqs[s].body.query.rankBy = Absent
    /\ Len(reqs[s].res.body.data.array) = 2

\* C21 as stated: over the three orders of the example, ranking by quantity
\* lists item 1 first (quantity 3, revenue 15) and item 2 second (quantity 5,
\* revenue 5).
C21_Original ==
    \A s \in Slots :
        ExampleAnswered(s) =>
            reqs[s].res.body.data.array =
                <<[id |-> 1, totalQuantity |-> 3, totalRevenue |-> 15000],
                  [id |-> 2, totalQuantity |-> 5, totalRevenue |-> 5000]>>

\* C21 amended: over the three orders of the example, ranking by quantity
\* lists item 2 first (quantity 5, revenue 5) and item 1 second (quantity 3,
\* revenue 15).
C21_ExampleByQuantity ==
    \A s \in Slots :
        ExampleAnswered(s) =>
            reqs[s].res.body.data.array =
                <<[id |-> 2, totalQuantity |-> 5, totalRevenue |-> 5000],
                  [id |-> 1, totalQuantity |-> 3, totalRevenue |-> 15000]>>

\* the example's orders were ranked by quantity with the default limit
C21_Witness ==
    /\ ExampleAnswered(1)
    /\ reqs[1].body.query = NoQuery

\* C14: the status of every stored order is one of the six lifecycle states
\* pending, confirmed, preparing, ready, delivered, cancelled.
C14_LifecycleStatus == \A i \in DOMAIN orders : orders[i].status \in LifecycleStates

----------------------------------------------------------------------------
(* Properties of the request pipeline (checked under Spec) *)

\* the requests being served or just answered
Live == {s \in Slots : reqs[s].pc # "idle"}

\* the requests on the routes other than /register and /login
Guarded == {s \in Live : Routes[reqs[s].route].path \notin PublicPaths}

Did(req, event) == \E i \in DOMAIN req.trail : req.trail[i] = event

\* C5: authenticateAdmin fails closed: when the Authorization header is absent
\* (or carries no token), or jwt.verify rejects the token (malformed, expired,
\* wrong signature), the request is answered 401, next is not called and no
\* identity is attached.
C5_FailClosed ==
    \A s \in Guarded :
        LET req   == reqs[s]
            token == TokenOf(req.header)
        IN  /\ (Falsy(token) \/ token.kind \in {"malformed", "expired", "badsig"}) =>
                   /\ req.pc = "done" /\ req.stage = 1
                   /\ ~req.admin.present
                   /\ req.res.n = 1 /\ req.res.status \in {401, 500}
            /\ (Falsy(token) \/ (Did(req, "jwt.verify") /\ token.kind # "valid")) =>
                   req.res.status = 401

\* an expired token presented while the secret is configured
C5_Witness ==
    \E s \in Guarded :
        /\ jwtSecret
        /\ TokenOf(reqs[s].header).kind = "expired"
        /\ reqs[s].res.status = 401

\* C6: with JWT_SECRET unset every request carrying a token is answered 500,
\* without next, before the token is verified or the Admin table is read; a
\* request without token is answered 401 all the same.
C6_SecretUnset ==
    ~jwtSecret =>
        \A s \in Guarded :
            LET req == reqs[s] IN
            IF Falsy(TokenOf(req.header))
            THEN req.pc = "done" /\ req.res.status = 401 /\ req.stage = 1
            ELSE /\ req.pc = "done" /\ req.res.status = 500 /\ req.stage = 1
                 /\ ~Did(req, "jwt.verify") /\ ~Did(req, "Admin.findByPk")
                 /\ ~req.admin.present

\* a valid token of an active admin answered 500 because the secret is unset
C6_Witness ==
    \E s \in Guarded :
        LET token == TokenOf(reqs[s].header) IN
        /\ ~jwtSecret
        /\ token.kind = "valid" /\ token.id \in DOMAIN admins /\ admins[token.id].isActive
        /\ reqs[s].res.status = 500

\* C7: a request whose token verifies but names no stored admin, or an admin
\* that was already deactivated when the request arrived, never gets past
\* authenticateAdmin and is answered 401; a request that gets past it carries
\* the identity of the stored admin its token names.
C7_InactiveRejected ==
    \A s \in Guarded :
        LET req   == reqs[s]
            token == TokenOf(req.header)
        IN  /\ (token.kind = "valid" /\ jwtSecret /\ (token.id \notin DOMAIN admins \/ req.late)) =>
                   /\ req.stage = 1 /\ ~req.admin.present
                   /\ req.pc = "done" => req.res.status = 401
            /\ req.stage > 1 =>
                   /\ token.id \in DOMAIN admins
                   /\ req.admin.present /\ req.admin.id = token.id /\ req.admin.isActive

\* an admin whose earlier request went through a rate-limited route has been
\* deactivated, and the next request with the same token is answered 401
\* after the Admin table was read
C7_Witness ==
    \E s \in Guarded :
        LET token == TokenOf(reqs[s].header) IN
        /\ issued = 2
        /\ token.kind = "valid"
        /\ token.id \in DOMAIN requests["orders:status"]
        /\ reqs[s].late
        /\ Did(reqs[s], "Admin.findByPk")
        /\ reqs[s].res.status = 401

StageKinds == {"auth", "role", "limit", "upload", "validate", "handler"}

\* the stages a request has entered, in order
StagesEntered(req) == SelectSeq(req.trail, LAMBDA e : e \in StageKinds)

KindsOf(route) == [i \in DOMAIN Routes[route].stages |-> Routes[route].stages[i].kind]

\* the position of the first stage of that kind on the route, 0 if none
FirstOf(route, kind) ==
    IF \E i \in DOMAIN KindsOf(route) : KindsOf(route)[i] = kind
    THEN Min({i \in DOMAIN KindsOf(route) : KindsOf(route)[i] = kind})
    ELSE 0

\* C9: on every admin route but /register and /login the stages run in the
\* order authenticate, role gate, rate limiter, handler, each only after the
\* one before called next; without a valid token of an active admin a request
\* stays in authenticate.
C9_Order ==
    \A s \in Guarded :
        LET req   == reqs[s]
            route == req.route
            n     == Len(KindsOf(route))
        IN  /\ KindsOf(route)[n] = "handler"
            /\ FirstOf(route, "role") # 0 => FirstOf(route, "role") = 2
            /\ FirstOf(route, "limit") # 0 =>
                   FirstOf(route, "limit") = (IF FirstOf(route, "role") # 0 THEN 3 ELSE 2)
            /\ StagesEntered(req) = SubSeq(KindsOf(route), 1, req.stage)
            /\ req.stage > 1 =>
                   /\ JwtVerify(TokenOf(req.header))
                   /\ req.admin.present /\ req.admin.isActive
                   /\ req.admin.id = TokenOf(req.header).id

\* C9, continued: an order, a menu item or a rate-limit Map changes only in a
\* step of a request that got past authenticate.
C9_Effects ==
    (orders' # orders \/ menu' # menu \/ requests' # requests) =>
        \E s \in Slots :
            /\ reqs'[s] # reqs[s]
            /\ reqs'[s].pc # "idle"
            /\ reqs'[s].stage > 1
            /\ reqs'[s].admin.present /\ reqs'[s].admin.isActive
            /\ JwtVerify(TokenOf(reqs'[s].header))

C9_Pipeline == []C9_Order /\ [][C9_Effects]_vars

\* an authenticated, rate-limited status update went through all its stages
C9_Witness ==
    \E s \in Guarded :
        /\ Routes[reqs[s].route].path = "/orders/:id/status"
        /\ reqs[s].trail = <<"auth", "jwt.verify", "Admin.findByPk", "limit", "handler">>
        /\ reqs[s].res.status = 200
        /\ orders[1].status # "pending"
        /\ requests["orders:status"] # EmptyMap

\* what authenticateAdmin itself records in the trail of a request
AuthEvents == {"auth", "jwt.verify", "Admin.findByPk"}

\* the positions of the trail at which authenticateAdmin was entered
AuthEntries(req) == {k \in DOMAIN req.trail : req.trail[k] = "auth"}

\* C29: for every request authenticateAdmin ends in exactly one outcome:
\* either it sends one response, 401 or 500, and next is not called (no later
\* stage is entered, no identity attached), or it calls next once, with
\* req.admin attached, and sends no response itself (the stage behind it is
\* entered once, and the response, if any, is that of a later stage); a
\* failing Admin.findByPk is answered 401 'Invalid token.'.
C29_OneOutcome ==
    \A s \in Guarded :
        LET req == reqs[s]
            later == {k \in DOMAIN req.trail : req.trail[k] \notin AuthEvents}
        IN  /\ Cardinality(AuthEntries(req)) = 1 /\ req.trail[1] = "auth"
            /\ IF req.pc \in {"auth_db", "auth_ret"}
               THEN later = {} /\ req.res = NoRes /\ ~req.admin.present /\ req.stage = 1
               ELSE \/ /\ later = {} /\ req.stage = 1
                       /\ req.pc = "done" /\ req.res.n = 1 /\ req.res.status \in {401, 500}
                       /\ ~req.admin.present
                    \/ /\ later # {} /\ req.stage > 1
                       /\ req.admin.present
                       /\ \A k \in later : \A j \in DOMAIN req.trail \ later : j < k
                       /\ Cardinality({k \in later :
                              req.trail[k] = Routes[req.route].stages[2].kind}) = 1
                       /\ req.pc # "done" => req.res = NoRes
            /\ (req.stage = 1 /\ req.pc = "done" /\ Did(req, "Admin.findByPk") /\ ~req.db.ok) =>
                   /\ req.res.status = 401
                   /\ req.res.body.message = Str("Invalid token.")

\* Admin.findByPk failed for a request with a valid token of an active admin
C29_Witness ==
    \E s \in Guarded :
        LET token == TokenOf(reqs[s].header) IN
        /\ token.kind = "valid" /\ token.id \in DOMAIN admins /\ admins[token.id].isActive
        /\ Did(reqs[s], "Admin.findByPk") /\ ~reqs[s].db.ok
        /\ reqs[s].stage = 1 /\ reqs[s].pc = "done"
        /\ reqs[s].res.status = 401

\* the field names of a JSON value, with those of an `admin` object inside it
\* and those of the elements of an array
FieldsOf(v) ==
    DOMAIN v \cup (IF "admin" \in DOMAIN v THEN DOMAIN v.admin ELSE {})
             \cup (IF "array" \in DOMAIN v
                   THEN UNION {DOMAIN v.array[i] : i \in 1..Len(v.array)} ELSE {})

\* C10: no response body of registerAdmin, loginAdmin or getAdminProfile (nor
\* of any other admin route) and no req.admin attached by authenticateAdmin
\* contains the password field, in success and error responses alike.
C10_NoPassword ==
    \A s \in Live :
        /\ "password" \notin FieldsOf(reqs[s].res.body.data)
        /\ "password" \notin FieldsOf(reqs[s].res.body.message)
        /\ "password" \notin DOMAIN reqs[s].admin

\* a successful login answered with the admin object
C10_Witness ==
    \E s \in Live :
        /\ StageOf(reqs[s]).name = "loginAdmin"
        /\ reqs[s].res.status = 200
        /\ "admin" \in DOMAIN reqs[s].res.body.data
        /\ "password" \in DOMAIN admins[reqs[s].res.body.data.admin.id]

====
